---- MODULE Spec2Model ----
(***************************************************************************)
(* SegLib: a model of the member projection (SLO, SegLibObjects.h) and the *)
(* sequence algebra (SLV, SegLibVector.h).                                 *)
(*                                                                         *)
(* A std::vector<T> is a TLA+ sequence; the C++ index k is position k+1.   *)
(* An object (ClassType) is a record with the two public integer           *)
(* attributes "score" and "id"; a pointer to member is the name of the     *)
(* attribute.  A reference to an object is the position of the object in   *)
(* ObjectVector.                                                           *)
(***************************************************************************)
EXTENDS Integers, Sequences, FiniteSets, TLC

VARIABLES
    op,            \* name of the library call made by the last step
    arg,           \* the arguments of that call, as they were when it was made
                   \* (for a LinkedMember call: the view k, and the value
                   \* that the call overwrote)
    ret,           \* the value the call returned
    ObjectVector,  \* the caller's std::vector<ClassType> (the live objects)
    Links,         \* the caller's LinkedMember views, a sequence
    Vector1,       \* the caller's first std::vector<T>
    Vector2        \* the caller's second std::vector<T>

vars == <<op, arg, ret, ObjectVector, Links, Vector1, Vector2>>

------------------------------------------------------------------------------
(* Bounds of the model *)

\* attribute and element values are 0..MaxVal
MaxVal == 2
\* longest std::vector<T> of arbitrary content in an initial state
MaxLen == 4
\* longest vector of arbitrary content in a run that starts from two vectors
MaxPairLen == 3
\* longest vector 1, 2, ..., k in an initial state of the distribution runs
MaxIota == 10
\* longest std::vector<ClassType> of arbitrary content in an initial state
MaxObjs == 2
\* longest vector of objects with score 1, 0, 1, ... in an initial state
MaxStriped == 4
\* largest chunk count passed to Distribute / DistributeMember
MaxDistributions == 4
\* most LinkedMember views alive at once
MaxLinks == 2

\* IsPrime and IsComposite are called on -MaxPrimeArg..MaxPrimeArg
MaxPrimeArg == 125
\* GeneratePrimes and GenerateComposites are called with Limit in 0..MaxLimit
MaxLimit == 15

\* GetQuotient is called on -MaxQuotientArg..MaxQuotientArg and on the ends
\* of the range of an int
MaxQuotientArg == 6

Values == 0..MaxVal

Members == {"score", "id"}

Objects == [score : Values, id : Values]

\* all sequences over S of length at most n
SeqsUpTo(S, n) == UNION {[1..k -> S] : k \in 0..n}

\* the vector 1, 2, ..., k
Iota(k) == [i \in 1..k |-> i]

\* k objects with score 1..k and id counting down
IotaObjects(k) == [i \in 1..k |-> [score |-> i, id |-> k - i]]

\* k objects with score 1, 0, 1, 0, ... and id 1..k
StripedObjects(k) == [i \in 1..k |-> [score |-> i % 2, id |-> i]]

\* The binary operations a caller passes as OperativeFunc: addition and
\* multiplication, each reduced modulo MaxVal + 1 by the caller's function,
\* so that the attributes stay in 0..MaxVal however many calls are made.
Operations == {"add", "mul"}

OperativeFunc(f, x, k) ==
    IF f = "add" THEN (x + k) % (MaxVal + 1) ELSE (x * k) % (MaxVal + 1)

NoArg == [none |-> TRUE]

NoRet == [none |-> TRUE]

------------------------------------------------------------------------------
(* LinkedMember (SegLibObjects.h) *)

\* a mutant: the working copy is value-initialized instead of copied
LinkedMember_NoCopy(Objs, ParentClassPtr, PtrToMember) ==
    [ClassPtr      |-> ParentClassPtr,
     MemberTypePtr |-> PtrToMember,
     Member        |-> 0]

\* The constructor: binds the object at position ParentClassPtr and the
\* attribute PtrToMember, and copies the attribute into Member.
LinkedMember(Objs, ParentClassPtr, PtrToMember) ==
    [ClassPtr      |-> ParentClassPtr,
     MemberTypePtr |-> PtrToMember,
     Member        |-> Objs[ParentClassPtr][PtrToMember]]

\* a mutant: Restore leaves the working copy as it is
RestoreLink_Noop(Objs, L) == L

\* a mutant: Commit stores the working copy in the other attribute
CommitLink_OtherMember(Objs, L) ==
    [Objs EXCEPT ![L.ClassPtr][CHOOSE n \in Members : n /= L.MemberTypePtr] = L.Member]

\* Member = ClassPtr.*MemberTypePtr
RestoreLink(Objs, L) ==
    [L EXCEPT !.Member = Objs[L.ClassPtr][L.MemberTypePtr]]

\* ClassPtr.*MemberTypePtr = Member ; the objects afterwards
CommitLink(Objs, L) ==
    [Objs EXCEPT ![L.ClassPtr][L.MemberTypePtr] = L.Member]

\* the caller constructs a view of attribute m of the live object, which is
\* ObjectVector[i]
Construct(i, m) ==
    /\ Len(Links) < MaxLinks
    /\ i \in 1..Len(ObjectVector)
    /\ Links' = Append(Links, LinkedMember(ObjectVector, i, m))
    /\ op' = "LinkedMember"
    /\ arg' = [k |-> Len(Links) + 1, old |-> ObjectVector[i][m]]
    /\ UNCHANGED <<ret, ObjectVector, Vector1, Vector2>>

\* the caller assigns the public field Member of view k
SetMember(k, v) ==
    /\ k \in 1..Len(Links)
    /\ Links' = [Links EXCEPT ![k].Member = v]
    /\ op' = "SetMember"
    /\ arg' = [k |-> k, old |-> Links[k].Member]
    /\ UNCHANGED <<ret, ObjectVector, Vector1, Vector2>>

Commit(k) ==
    /\ k \in 1..Len(Links)
    /\ ObjectVector' = CommitLink(ObjectVector, Links[k])
    /\ op' = "Commit"
    /\ arg' = [k |-> k, old |-> ObjectVector[Links[k].ClassPtr][Links[k].MemberTypePtr]]
    /\ UNCHANGED <<ret, Links, Vector1, Vector2>>

Restore(k) ==
    /\ k \in 1..Len(Links)
    /\ Links' = [Links EXCEPT ![k] = RestoreLink(ObjectVector, Links[k])]
    /\ op' = "Restore"
    /\ arg' = [k |-> k, old |-> Links[k].Member]
    /\ UNCHANGED <<ret, ObjectVector, Vector1, Vector2>>

\* the caller writes attribute m of the live object through GetClass()
GetClassWrite(k, m, v) ==
    /\ k \in 1..Len(Links)
    /\ ObjectVector' = [ObjectVector EXCEPT ![Links[k].ClassPtr][m] = v]
    /\ op' = "GetClass"
    /\ arg' = [k |-> k, old |-> ObjectVector[Links[k].ClassPtr][m]]
    /\ UNCHANGED <<ret, Links, Vector1, Vector2>>

InitLinked ==
    /\ op = "init"
    /\ arg = [k |-> 0, old |-> 0]
    /\ ret = NoRet
    /\ ObjectVector \in {<<o>> : o \in Objects}
    /\ Links = <<>>
    /\ Vector1 = <<>>
    /\ Vector2 = <<>>

NextLinked ==
    \/ \E m \in Members : Construct(1, m)
    \/ \E k \in 1..MaxLinks, v \in Values : SetMember(k, v)
    \/ \E k \in 1..MaxLinks : Commit(k)
    \/ \E k \in 1..MaxLinks : Restore(k)
    \/ \E k \in 1..MaxLinks, m \in Members, v \in Values : GetClassWrite(k, m, v)

SpecLinked == InitLinked /\ [][NextLinked]_vars

\* GetClass: the address of the live object, which is its position
GetClass(L) == L.ClassPtr

\* a mutant: the copy carries the working copy in the bound attribute
CopyClass_WithMember(Objs, L) ==
    [Objs[L.ClassPtr] EXCEPT ![L.MemberTypePtr] = L.Member]

\* CopyClass: the live object by value
CopyClass(Objs, L) == Objs[L.ClassPtr]

\* the caller takes the pointer that GetClass returns
CallGetClass(k) ==
    /\ k \in 1..Len(Links)
    /\ op' = "GetClassPointer"
    /\ arg' = [k |-> k, old |-> Links[k].Member]
    /\ ret' = [ClassPtr |-> GetClass(Links[k])]
    /\ UNCHANGED <<ObjectVector, Links, Vector1, Vector2>>

\* the caller takes the object that CopyClass returns
CallCopyClass(k) ==
    /\ k \in 1..Len(Links)
    /\ op' = "CopyClass"
    /\ arg' = [k |-> k, old |-> Links[k].Member]
    /\ ret' = [Copy |-> CopyClass(ObjectVector, Links[k])]
    /\ UNCHANGED <<ObjectVector, Links, Vector1, Vector2>>

\* the caller writes attribute m of the copy it holds
ModifyCopy(m, v) ==
    /\ "Copy" \in DOMAIN ret
    /\ op' = "ModifyCopy"
    /\ arg' = [k |-> 0, old |-> ret.Copy[m]]
    /\ ret' = [Copy |-> [ret.Copy EXCEPT ![m] = v]]
    /\ UNCHANGED <<ObjectVector, Links, Vector1, Vector2>>

\* one live object and one view of it, just constructed
InitLinkedCopy ==
    /\ op = "init"
    /\ arg = [k |-> 0, old |-> 0]
    /\ ret = NoRet
    /\ ObjectVector \in {<<o>> : o \in Objects}
    /\ Links \in {<<LinkedMember(ObjectVector, 1, m)>> : m \in Members}
    /\ Vector1 = <<>>
    /\ Vector2 = <<>>

NextLinkedCopy ==
    \/ \E v \in Values : SetMember(1, v)
    \/ Commit(1)
    \/ Restore(1)
    \/ \E m \in Members, v \in Values : GetClassWrite(1, m, v)
    \/ CallGetClass(1)
    \/ CallCopyClass(1)
    \/ \E m \in Members, v \in Values : ModifyCopy(m, v)

SpecLinkedCopy == InitLinkedCopy /\ [][NextLinkedCopy]_vars

------------------------------------------------------------------------------
\* the object and the attribute view k is bound to
BoundObject(k) == Links[k].ClassPtr

BoundMember(k) == Links[k].MemberTypePtr

\* C1: a view's working copy equals the bound attribute of the live object
\* when the view is constructed; Commit stores the working copy in the bound
\* attribute and changes no view, no other attribute and no other object;
\* Restore loads the bound attribute into the working copy, whatever the
\* working copy held, and changes no object and no other view.
C1_Lifecycle ==
    [][
        /\ op' = "LinkedMember" =>
              /\ Len(Links') = Len(Links) + 1
              /\ arg'.k = Len(Links')
              /\ Links'[arg'.k].Member =
                     ObjectVector[Links'[arg'.k].ClassPtr][Links'[arg'.k].MemberTypePtr]
              /\ ObjectVector' = ObjectVector
              /\ \A j \in 1..Len(Links) : Links'[j] = Links[j]
        /\ op' = "Commit" =>
              /\ ObjectVector'[BoundObject(arg'.k)][BoundMember(arg'.k)]
                     = Links[arg'.k].Member
              /\ Links' = Links
              /\ Len(ObjectVector') = Len(ObjectVector)
              /\ \A j \in 1..Len(ObjectVector), n \in Members :
                    (j /= BoundObject(arg'.k) \/ n /= BoundMember(arg'.k))
                        => ObjectVector'[j][n] = ObjectVector[j][n]
        /\ op' = "Restore" =>
              /\ Links'[arg'.k].Member
                     = ObjectVector[BoundObject(arg'.k)][BoundMember(arg'.k)]
              /\ ObjectVector' = ObjectVector
              /\ Len(Links') = Len(Links)
              /\ \A j \in 1..Len(Links) :
                    /\ j /= arg'.k => Links'[j] = Links[j]
                    /\ Links'[j].ClassPtr = Links[j].ClassPtr
                    /\ Links'[j].MemberTypePtr = Links[j].MemberTypePtr
    ]_vars

\* a Restore of view 1 has just discarded an uncommitted edit (its working
\* copy differs from what it was before the call and equals the live
\* attribute again) while a second view is bound to the same attribute
C1_Witness ==
    /\ op = "Restore"
    /\ arg.k = 1
    /\ Len(Links) = 2
    /\ Links[1].MemberTypePtr = Links[2].MemberTypePtr
    /\ arg.old /= Links[1].Member
    /\ Links[1].Member = ObjectVector[1][Links[1].MemberTypePtr]
    /\ Links[1].Member = Links[2].Member

\* C25: an edit of the working copy leaves the live object as it is, so
\* without a Commit the object that GetClass points to and the value that
\* CopyClass returns carry the live attribute, not the working copy;
\* modifying the copy changes neither the live object nor the working copy;
\* a write through GetClass changes the live object and no working copy,
\* and Restore loads what the live attribute then holds.
C25_UncommittedInvisible ==
    [][
        /\ op' = "SetMember" => ObjectVector' = ObjectVector
        /\ op' = "GetClassPointer" =>
              /\ ret'.ClassPtr = BoundObject(arg'.k)
              /\ ObjectVector' = ObjectVector
              /\ Links' = Links
        /\ op' = "CopyClass" =>
              /\ ret'.Copy = ObjectVector[BoundObject(arg'.k)]
              /\ ObjectVector' = ObjectVector
              /\ Links' = Links
        /\ op' = "ModifyCopy" =>
              /\ ObjectVector' = ObjectVector
              /\ Links' = Links
        /\ op' = "GetClass" =>
              /\ Links' = Links
              /\ \A j \in 1..Len(ObjectVector) :
                    j /= BoundObject(arg'.k) => ObjectVector'[j] = ObjectVector[j]
        /\ op' = "Restore" =>
              Links'[arg'.k].Member
                  = ObjectVector[BoundObject(arg'.k)][BoundMember(arg'.k)]
    ]_vars

\* CopyClass has returned the live object while the working copy held an
\* edit that was not committed
C25_Witness ==
    /\ op = "CopyClass"
    /\ Links[1].Member /= ObjectVector[1][BoundMember(1)]
    /\ ret.Copy = ObjectVector[1]
    /\ ret.Copy[BoundMember(1)] /= Links[1].Member

\* the working copy L.Member equals the attribute of Objs that L is bound to
Clean(Objs, L) == L.Member = Objs[L.ClassPtr][L.MemberTypePtr]

\* C26: right after every Commit and every Restore the working copy of the
\* view equals the bound attribute of the live object (clean); a clean view
\* becomes dirty only by an edit of its working copy or by a change of the
\* live attribute from outside the view (a write through GetClass, or the
\* Commit of another view of the same attribute); Commit and Restore are
\* idempotent, and either one in a clean state changes nothing.
C26_DirtyClean ==
    [][
        /\ op' \in {"Commit", "Restore"} =>
              Clean(ObjectVector', Links'[arg'.k])
        /\ \A k \in 1..Len(Links) :
              (Clean(ObjectVector, Links[k]) /\ ~Clean(ObjectVector', Links'[k])) =>
                  \/ op' = "SetMember" /\ arg'.k = k
                  \/ op' = "GetClass"
                  \/ /\ op' = "Commit"
                     /\ arg'.k /= k
                     /\ BoundObject(arg'.k) = BoundObject(k)
                     /\ BoundMember(arg'.k) = BoundMember(k)
        /\ (op' \in {"Commit", "Restore"} /\ Clean(ObjectVector, Links[arg'.k])) =>
              /\ ObjectVector' = ObjectVector
              /\ Links' = Links
        /\ op' = "Commit" =>
              CommitLink(ObjectVector', Links'[arg'.k]) = ObjectVector'
        /\ op' = "Restore" =>
              RestoreLink(ObjectVector', Links'[arg'.k]) = Links'[arg'.k]
    ]_vars

\* a Restore has made a dirty view clean: the working copy held an edit and
\* is the live attribute again, the only view there is
C26_Witness ==
    /\ op = "Restore"
    /\ Len(Links) = 1
    /\ arg.old /= Links[1].Member
    /\ Clean(ObjectVector, Links[1])

\* C27: of two views of the same attribute of the same object, a Commit of
\* one stores its working copy in the live attribute, whatever was committed
\* before, and changes no working copy; no other call of a view changes the
\* live object, so the live attribute is the working copy of the most recent
\* Commit; the working copy of a view changes only by its own edit or its
\* own Restore, and Restore is what loads the value the other view
\* committed.
C27_LastCommitWins ==
    [][
        /\ op' = "Commit" =>
              /\ Links' = Links
              /\ ObjectVector'[BoundObject(arg'.k)][BoundMember(arg'.k)]
                     = Links[arg'.k].Member
              /\ \A j \in 1..Len(Links) :
                    (BoundObject(j) = BoundObject(arg'.k)
                        /\ BoundMember(j) = BoundMember(arg'.k)) =>
                    ObjectVector'[BoundObject(j)][BoundMember(j)] = Links[arg'.k].Member
        /\ op' \notin {"Commit", "GetClass"} => ObjectVector' = ObjectVector
        /\ \A j \in 1..Len(Links) :
              Links'[j].Member /= Links[j].Member =>
                  /\ op' \in {"SetMember", "Restore"}
                  /\ arg'.k = j
        /\ op' = "Restore" =>
              Links'[arg'.k].Member
                  = ObjectVector[BoundObject(arg'.k)][BoundMember(arg'.k)]
    ]_vars

\* view 2 has committed over the value that the live attribute held and
\* that view 1, bound to the same attribute, still holds: the live
\* attribute is the working copy of view 2, and view 1 has not seen it
C27_Witness ==
    /\ op = "Commit"
    /\ arg.k = 2
    /\ Len(Links) = 2
    /\ BoundMember(1) = BoundMember(2)
    /\ arg.old = Links[1].Member
    /\ Links[1].Member /= Links[2].Member
    /\ ObjectVector[1][BoundMember(2)] = Links[2].Member

------------------------------------------------------------------------------
(* Sequence algebra (SegLibVector.h) *)

\* a mutant: an index in range erases the last element
Erase_Last(Vector, Index) ==
    IF Index >= Len(Vector) \/ Vector = <<>> THEN Vector
    ELSE SubSeq(Vector, 1, Len(Vector) - 1)

\* SLV::Erase: Index is a size_t and counts from 0; the copy without
\* position Index + 1, or the copy itself when Index is out of range
Erase(Vector, Index) ==
    IF Index >= Len(Vector) \/ Vector = <<>> THEN Vector
    ELSE SubSeq(Vector, 1, Index) \o SubSeq(Vector, Index + 2, Len(Vector))

\* a mutant: the two inserts are in the wrong order
AppendVectors_Swapped(V1, V2) == V2 \o V1

\* SLV::Append: Vector1's elements, then Vector2's
AppendVectors(V1, V2) == V1 \o V2

\* The loop of MakeUniqueInPlace from the element at position i on:
\* CurrentItem is a duplicate if it equals an item of ResultVector.
RECURSIVE MakeUniqueLoop(_, _, _, _)
MakeUniqueLoop(Vector, i, ResultVector, RemovedElements) ==
    IF i > Len(Vector)
    THEN [Vector |-> ResultVector, RemovedElements |-> RemovedElements]
    ELSE LET CurrentItem == Vector[i]
             Duplicate == \E j \in 1..Len(ResultVector) :
                             CurrentItem = ResultVector[j]
         IN  IF Duplicate
             THEN MakeUniqueLoop(Vector, i + 1, ResultVector, RemovedElements + 1)
             ELSE MakeUniqueLoop(Vector, i + 1,
                                 Append(ResultVector, CurrentItem), RemovedElements)

\* the elements of Vector at the positions that satisfy Keep, in order
Pick(Vector, Keep(_)) ==
    LET F[i \in 0..Len(Vector)] ==
            IF i = 0 THEN <<>>
            ELSE IF Keep(i) THEN Append(F[i - 1], Vector[i]) ELSE F[i - 1]
    IN  F[Len(Vector)]

\* a mutant: each item is compared with its predecessor only (as std::unique
\* does), so a duplicate that is not adjacent survives
MakeUniqueInPlace_Adjacent(Vector) ==
    LET Result == Pick(Vector, LAMBDA i : i = 1 \/ Vector[i] /= Vector[i - 1])
    IN  [Vector |-> Result, RemovedElements |-> Len(Vector) - Len(Result)]

\* MakeUniqueInPlace: the vector afterwards and the returned count
MakeUniqueInPlace(Vector) == MakeUniqueLoop(Vector, 1, <<>>, 0)

\* CreateUnion: Append, then MakeUniqueInPlace on the result
CreateUnion(V1, V2) == MakeUniqueInPlace(AppendVectors(V1, V2)).Vector

\* The loop of CreateIntersectional from the element of Vector1 at position
\* i on: CurrentElement is accepted if it equals an element of Vector2.
RECURSIVE IntersectionalLoop(_, _, _, _)
IntersectionalLoop(V1, V2, i, IntersectionalVector) ==
    IF i > Len(V1) THEN IntersectionalVector
    ELSE LET CurrentElement == V1[i]
             Intersection == \E j \in 1..Len(V2) : CurrentElement = V2[j]
         IN  IntersectionalLoop(V1, V2, i + 1,
                 IF Intersection
                 THEN Append(IntersectionalVector, CurrentElement)
                 ELSE IntersectionalVector)

\* a mutant: the final MakeUniqueInPlace is missing
CreateIntersectional_NotUnique(V1, V2) == IntersectionalLoop(V1, V2, 1, <<>>)

\* CreateIntersectional: the loop, then MakeUniqueInPlace on the result
CreateIntersectional(V1, V2) ==
    MakeUniqueInPlace(IntersectionalLoop(V1, V2, 1, <<>>)).Vector

\* The loop of CreateDifferential from the element of BaseVector at position
\* i on: BaseElement is accepted unless it equals an element of
\* ComparisonVector.
RECURSIVE DifferentialLoop(_, _, _, _)
DifferentialLoop(BaseVector, ComparisonVector, i, DifferentialVector) ==
    IF i > Len(BaseVector) THEN DifferentialVector
    ELSE LET BaseElement == BaseVector[i]
             Difference == ~ \E j \in 1..Len(ComparisonVector) :
                                 BaseElement = ComparisonVector[j]
         IN  DifferentialLoop(BaseVector, ComparisonVector, i + 1,
                 IF Difference
                 THEN Append(DifferentialVector, BaseElement)
                 ELSE DifferentialVector)

\* a mutant: the final MakeUniqueInPlace is missing
CreateDifferential_NotUnique(BaseVector, ComparisonVector) ==
    DifferentialLoop(BaseVector, ComparisonVector, 1, <<>>)

\* CreateDifferential: the loop, then MakeUniqueInPlace on the result
CreateDifferential(BaseVector, ComparisonVector) ==
    MakeUniqueInPlace(DifferentialLoop(BaseVector, ComparisonVector, 1, <<>>)).Vector

\* a mutant: the first half is the de-duplicated Vector1, so the elements
\* that Vector2 holds too are in the result
CreateSymmeticalDifference_WholeFirst(V1, V2) ==
    MakeUniqueInPlace(AppendVectors(MakeUniqueInPlace(V1).Vector,
                                    CreateDifferential(V2, V1))).Vector

\* a mutant: only the elements of Vector1 that Vector2 lacks
CreateSymmeticalDifference_OneSided(V1, V2) == CreateDifferential(V1, V2)

\* CreateSymmeticalDifference: the two differentials appended, then
\* MakeUniqueInPlace on the result
CreateSymmeticalDifference(V1, V2) ==
    MakeUniqueInPlace(AppendVectors(CreateDifferential(V1, V2),
                                    CreateDifferential(V2, V1))).Vector

\* ContainsElement: the range-for from position i on
RECURSIVE ContainsLoop(_, _, _)
ContainsLoop(Vector, Element, i) ==
    IF i > Len(Vector) THEN FALSE
    ELSE IF Vector[i] = Element THEN TRUE
    ELSE ContainsLoop(Vector, Element, i + 1)

ContainsElement(Vector, Element) == ContainsLoop(Vector, Element, 1)

\* FindElement: the loop from the C++ index i on
RECURSIVE FindLoop(_, _, _)
FindLoop(Vector, Element, i) ==
    IF ~(i < Len(Vector)) THEN -1
    ELSE IF Vector[i + 1] = Element THEN i
    ELSE FindLoop(Vector, Element, i + 1)

\* a mutant: the scan runs from the back, so the last match is returned
FindElement_Last(Vector, Element) ==
    LET Found == {i \in 0..(Len(Vector) - 1) : Vector[i + 1] = Element}
    IN  IF Found = {} THEN -1
        ELSE CHOOSE i \in Found : \A j \in Found : j <= i

FindElement(Vector, Element) == FindLoop(Vector, Element, 0)

\* FindAllElement: the loop from the C++ index i on
RECURSIVE FindAllLoop(_, _, _, _)
FindAllLoop(Vector, Element, i, Positions) ==
    IF ~(i < Len(Vector)) THEN Positions
    ELSE FindAllLoop(Vector, Element, i + 1,
             IF Vector[i + 1] = Element THEN Append(Positions, i)
             ELSE Positions)

FindAllElement(Vector, Element) == FindAllLoop(Vector, Element, 0, <<>>)

\* CountElement: the loop from the C++ index i on
RECURSIVE CountLoop(_, _, _, _)
CountLoop(Vector, Element, i, Counter) ==
    IF ~(i < Len(Vector)) THEN Counter
    ELSE CountLoop(Vector, Element, i + 1,
             IF Vector[i + 1] = Element THEN Counter + 1 ELSE Counter)

CountElement(Vector, Element) == CountLoop(Vector, Element, 0, 0)

\* The callables a caller hands to the filters.  A unary ConditionalFunc is
\* one of the predicates of SLN; a binary ComparativeFunc is a comparison of
\* the element with CompVar.
Conditions == {"IsEven", "IsOdd", "IsPositive"}

ConditionalFunc(c, x) ==
    CASE c = "IsEven" -> x % 2 = 0
      [] c = "IsOdd" -> ~(x % 2 = 0)
      [] c = "IsPositive" -> x > 0

Comparisons == {"less", "less_equal", "not_equal_to"}

ComparativeFunc(f, x, CompVar) ==
    CASE f = "less" -> x < CompVar
      [] f = "less_equal" -> x <= CompVar
      [] f = "not_equal_to" -> x /= CompVar

\* The loop of the in-place filters from the element at position i on:
\* CurrentElement goes to ReturnVector if the test accepts it, and is counted
\* in ElementsRemoved otherwise.  Keep is the test as a function of the
\* element.
RECURSIVE FilterLoop(_, _, _, _, _)
FilterLoop(Vector, Keep, i, ReturnVector, ElementsRemoved) ==
    IF i > Len(Vector)
    THEN [Vector |-> ReturnVector, ElementsRemoved |-> ElementsRemoved]
    ELSE LET CurrentElement == Vector[i]
         IN  IF Keep[CurrentElement]
             THEN FilterLoop(Vector, Keep, i + 1,
                             Append(ReturnVector, CurrentElement), ElementsRemoved)
             ELSE FilterLoop(Vector, Keep, i + 1, ReturnVector, ElementsRemoved + 1)

\* the in-place filters: the vector afterwards and the returned count
ConditionalInclusion_p(Vector, c) ==
    FilterLoop(Vector, [x \in Values |-> ConditionalFunc(c, x)], 1, <<>>, 0)

ConditionalExclusion_p(Vector, c) ==
    FilterLoop(Vector, [x \in Values |-> ~ConditionalFunc(c, x)], 1, <<>>, 0)

ComparativeInclusion_p(Vector, CompVar, f) ==
    FilterLoop(Vector, [x \in Values |-> ComparativeFunc(f, x, CompVar)], 1, <<>>, 0)

ComparativeExclusion_p(Vector, CompVar, f) ==
    FilterLoop(Vector, [x \in Values |-> ~ComparativeFunc(f, x, CompVar)], 1, <<>>, 0)

SLV_EqualityInclusion_p(Vector, CompVar) ==
    FilterLoop(Vector, [x \in Values |-> x = CompVar], 1, <<>>, 0)

\* a mutant: the test is == as in EqualityInclusion_p
SLV_EqualityExclusion_p_Includes(Vector, CompVar) ==
    FilterLoop(Vector, [x \in Values |-> x = CompVar], 1, <<>>, 0)

SLV_EqualityExclusion_p(Vector, CompVar) ==
    FilterLoop(Vector, [x \in Values |-> x /= CompVar], 1, <<>>, 0)

\* Vector[Index] of the C++ code: Index counts from 0.  A read at or past
\* size() is undefined behaviour; the loops below record it in oob, and the
\* value put in its place is never returned to the caller.
Subscript(Vector, Index) ==
    IF Index < Len(Vector) THEN Vector[Index + 1] ELSE 0

\* The inner loop of Distribute, from x on: copies Vector[Index] into
\* CurrentDistribution and advances Index.
RECURSIVE DistributeInner(_, _, _, _)
DistributeInner(Vector, Indices, x, st) ==
    IF x >= Indices THEN st
    ELSE DistributeInner(Vector, Indices, x + 1,
            [CurrentDistribution |->
                 Append(st.CurrentDistribution, Subscript(Vector, st.Index)),
             Index |-> st.Index + 1,
             oob   |-> st.oob \/ st.Index >= Len(Vector)])

\* The outer loop of Distribute, from i on: one chunk of Indices elements
\* per round, appended to ReturnVector.
RECURSIVE DistributeOuter(_, _, _, _, _)
DistributeOuter(Vector, Distributions, Indices, i, st) ==
    IF i >= Distributions THEN st
    ELSE LET in == DistributeInner(Vector, Indices, 0,
                       [CurrentDistribution |-> <<>>,
                        Index |-> st.Index, oob |-> st.oob])
         IN  DistributeOuter(Vector, Distributions, Indices, i + 1,
                 [ReturnVector |-> Append(st.ReturnVector, in.CurrentDistribution),
                  Index |-> in.Index,
                  oob   |-> in.oob])

\* The remainder loop of Distribute, from i on:
\* ReturnVector[i].push_back(Vector[Index]); Index++.
RECURSIVE DistributeRemainder(_, _, _, _)
DistributeRemainder(Vector, Remainder, i, st) ==
    IF i >= Remainder THEN st
    ELSE DistributeRemainder(Vector, Remainder, i + 1,
            [ReturnVector |->
                 IF i < Len(st.ReturnVector)
                 THEN [st.ReturnVector EXCEPT
                          ![i + 1] = Append(@, Subscript(Vector, st.Index))]
                 ELSE st.ReturnVector,
             Index |-> st.Index + 1,
             oob   |-> \/ st.oob
                       \/ st.Index >= Len(Vector)
                       \/ i >= Len(st.ReturnVector)])

\* a mutant: the leftover elements all go to the first chunk
DistributeChunks_RemainderToFirst(Vector, Distributions, ForceEqualDistribution) ==
    LET Indices == Len(Vector) \div Distributions
        Chunks  == DistributeOuter(Vector, Distributions, Indices, 0,
                       [ReturnVector |-> <<>>, Index |-> 0, oob |-> FALSE])
    IN  IF ForceEqualDistribution THEN Chunks
        ELSE [ReturnVector |->
                  [Chunks.ReturnVector EXCEPT
                      ![1] = @ \o SubSeq(Vector, Chunks.Index + 1, Len(Vector))],
              Index |-> Len(Vector),
              oob |-> Chunks.oob]

\* a mutant: the remainder is handed out before the equal-size guard is
\* looked at, so forcing equal chunks does not drop it
DistributeChunks_ForceIgnored(Vector, Distributions, ForceEqualDistribution) ==
    DistributeRemainder(Vector, Len(Vector) % Distributions, 0,
        DistributeOuter(Vector, Distributions, Len(Vector) \div Distributions, 0,
            [ReturnVector |-> <<>>, Index |-> 0, oob |-> FALSE]))

\* a mutant: the remainder loop is missing, the leftover elements are lost
DistributeChunks_RemainderDropped(Vector, Distributions, ForceEqualDistribution) ==
    DistributeOuter(Vector, Distributions, Len(Vector) \div Distributions, 0,
        [ReturnVector |-> <<>>, Index |-> 0, oob |-> FALSE])

\* Distribute past its guard: the chunk loops, the equal-size return and the
\* remainder loop
DistributeChunks(Vector, Distributions, ForceEqualDistribution) ==
    LET Indices == Len(Vector) \div Distributions
        Chunks  == DistributeOuter(Vector, Distributions, Indices, 0,
                       [ReturnVector |-> <<>>, Index |-> 0, oob |-> FALSE])
    IN  IF ForceEqualDistribution THEN Chunks
        ELSE DistributeRemainder(Vector, Len(Vector) % Distributions, 0, Chunks)

\* a mutant: the early return forgets to emplace the input
Distribute_EarlyReturnEmpty(Vector, Distributions, ForceEqualDistribution) ==
    IF Distributions <= 1
    THEN [ReturnVector |-> <<>>, Index |-> 0, oob |-> FALSE]
    ELSE DistributeChunks(Vector, Distributions, ForceEqualDistribution)

\* Distribute: the returned chunks, the final value of Index, and whether a
\* subscript was out of bounds on the way
Distribute(Vector, Distributions, ForceEqualDistribution) ==
    IF Distributions <= 1
    THEN [ReturnVector |-> <<Vector>>, Index |-> 0, oob |-> FALSE]
    ELSE DistributeChunks(Vector, Distributions, ForceEqualDistribution)

\* What a caller may get back from a call that read out of bounds: any
\* chunks at all.
UndefinedChunks == SeqsUpTo(SeqsUpTo(Values, 1), 2)

------------------------------------------------------------------------------
(* Calls on one vector *)

CallMakeUniqueInPlace ==
    LET r == MakeUniqueInPlace(Vector1)
    IN  /\ op' = "MakeUniqueInPlace"
        /\ arg' = [Vector |-> Vector1]
        /\ Vector1' = r.Vector
        /\ ret' = r.RemovedElements
        /\ UNCHANGED <<ObjectVector, Links, Vector2>>

CallDistribute(n, f) ==
    LET r == Distribute(Vector1, n, f)
    IN  /\ op' = "Distribute"
        /\ arg' = [Vector |-> Vector1, Distributions |-> n,
                   ForceEqualDistribution |-> f]
        /\ IF r.oob
           THEN ret' \in {[r EXCEPT !.ReturnVector = c] : c \in UndefinedChunks}
           ELSE ret' = r
        /\ UNCHANGED <<ObjectVector, Links, Vector1, Vector2>>

CallErase(i) ==
    /\ op' = "Erase"
    /\ arg' = [Vector |-> Vector1, Index |-> i]
    /\ ret' = Erase(Vector1, i)
    /\ UNCHANGED <<ObjectVector, Links, Vector1, Vector2>>

CallContainsElement(e) ==
    /\ op' = "ContainsElement"
    /\ arg' = [Vector |-> Vector1, Element |-> e]
    /\ ret' = ContainsElement(Vector1, e)
    /\ UNCHANGED <<ObjectVector, Links, Vector1, Vector2>>

CallFindElement(e) ==
    /\ op' = "FindElement"
    /\ arg' = [Vector |-> Vector1, Element |-> e]
    /\ ret' = FindElement(Vector1, e)
    /\ UNCHANGED <<ObjectVector, Links, Vector1, Vector2>>

CallFindAllElement(e) ==
    /\ op' = "FindAllElement"
    /\ arg' = [Vector |-> Vector1, Element |-> e]
    /\ ret' = FindAllElement(Vector1, e)
    /\ UNCHANGED <<ObjectVector, Links, Vector1, Vector2>>

CallCountElement(e) ==
    /\ op' = "CountElement"
    /\ arg' = [Vector |-> Vector1, Element |-> e]
    /\ ret' = CountElement(Vector1, e)
    /\ UNCHANGED <<ObjectVector, Links, Vector1, Vector2>>

InitVector ==
    /\ op = "init"
    /\ arg = NoArg
    /\ ret = NoRet
    /\ ObjectVector = <<>>
    /\ Links = <<>>
    /\ Vector1 \in SeqsUpTo(Values, MaxLen) \cup {Iota(k) : k \in 0..MaxIota}
    /\ Vector2 = <<>>

NextVector ==
    \/ CallMakeUniqueInPlace
    \/ \E n \in 0..MaxDistributions, f \in BOOLEAN : CallDistribute(n, f)
    \/ \E i \in 0..(MaxLen + 1) : CallErase(i)
    \/ \E e \in Values : CallContainsElement(e)
    \/ \E e \in Values : CallFindElement(e)
    \/ \E e \in Values : CallFindAllElement(e)
    \/ \E e \in Values : CallCountElement(e)

SpecVector == InitVector /\ [][NextVector]_vars

------------------------------------------------------------------------------
(* Calls of the in-place filters on one vector *)

\* the call has replaced Vector1 by r.Vector and returned r.ElementsRemoved
Filtered(name, a, r) ==
    /\ op' = name
    /\ arg' = a
    /\ Vector1' = r.Vector
    /\ ret' = r.ElementsRemoved
    /\ UNCHANGED <<ObjectVector, Links, Vector2>>

CallConditionalInclusion_p(c) ==
    Filtered("ConditionalInclusion_p",
             [Vector |-> Vector1, ConditionalFunc |-> c],
             ConditionalInclusion_p(Vector1, c))

CallConditionalExclusion_p(c) ==
    Filtered("ConditionalExclusion_p",
             [Vector |-> Vector1, ConditionalFunc |-> c],
             ConditionalExclusion_p(Vector1, c))

CallComparativeInclusion_p(v, f) ==
    Filtered("ComparativeInclusion_p",
             [Vector |-> Vector1, CompVar |-> v, ComparativeFunc |-> f],
             ComparativeInclusion_p(Vector1, v, f))

CallComparativeExclusion_p(v, f) ==
    Filtered("ComparativeExclusion_p",
             [Vector |-> Vector1, CompVar |-> v, ComparativeFunc |-> f],
             ComparativeExclusion_p(Vector1, v, f))

CallSLV_EqualityInclusion_p(v) ==
    Filtered("EqualityInclusion_p",
             [Vector |-> Vector1, CompVar |-> v],
             SLV_EqualityInclusion_p(Vector1, v))

CallSLV_EqualityExclusion_p(v) ==
    Filtered("EqualityExclusion_p",
             [Vector |-> Vector1, CompVar |-> v],
             SLV_EqualityExclusion_p(Vector1, v))

InitFilter ==
    /\ op = "init"
    /\ arg = NoArg
    /\ ret = NoRet
    /\ ObjectVector = <<>>
    /\ Links = <<>>
    /\ Vector1 \in SeqsUpTo(Values, MaxLen)
    /\ Vector2 = <<>>

NextFilter ==
    \/ \E c \in Conditions : CallConditionalInclusion_p(c)
    \/ \E c \in Conditions : CallConditionalExclusion_p(c)
    \/ \E v \in Values, f \in Comparisons : CallComparativeInclusion_p(v, f)
    \/ \E v \in Values, f \in Comparisons : CallComparativeExclusion_p(v, f)
    \/ \E v \in Values : CallSLV_EqualityInclusion_p(v)
    \/ \E v \in Values : CallSLV_EqualityExclusion_p(v)

SpecFilter == InitFilter /\ [][NextFilter]_vars

------------------------------------------------------------------------------
(* Calls on two vectors *)

CallCreateUnion ==
    /\ op' = "CreateUnion"
    /\ arg' = [Vector1 |-> Vector1, Vector2 |-> Vector2]
    /\ ret' = CreateUnion(Vector1, Vector2)
    /\ UNCHANGED <<ObjectVector, Links, Vector1, Vector2>>

CallCreateIntersectional ==
    /\ op' = "CreateIntersectional"
    /\ arg' = [Vector1 |-> Vector1, Vector2 |-> Vector2]
    /\ ret' = CreateIntersectional(Vector1, Vector2)
    /\ UNCHANGED <<ObjectVector, Links, Vector1, Vector2>>

CallCreateDifferential ==
    /\ op' = "CreateDifferential"
    /\ arg' = [Vector1 |-> Vector1, Vector2 |-> Vector2]
    /\ ret' = CreateDifferential(Vector1, Vector2)
    /\ UNCHANGED <<ObjectVector, Links, Vector1, Vector2>>

CallCreateSymmeticalDifference ==
    /\ op' = "CreateSymmeticalDifference"
    /\ arg' = [Vector1 |-> Vector1, Vector2 |-> Vector2]
    /\ ret' = CreateSymmeticalDifference(Vector1, Vector2)
    /\ UNCHANGED <<ObjectVector, Links, Vector1, Vector2>>

InitPair ==
    /\ op = "init"
    /\ arg = NoArg
    /\ ret = NoRet
    /\ ObjectVector = <<>>
    /\ Links = <<>>
    /\ Vector1 \in SeqsUpTo(Values, MaxPairLen)
    /\ Vector2 \in SeqsUpTo(Values, MaxPairLen)

NextPair ==
    \/ CallCreateUnion
    \/ CallCreateIntersectional
    \/ CallCreateDifferential
    \/ CallCreateSymmeticalDifference

SpecPair == InitPair /\ [][NextPair]_vars

------------------------------------------------------------------------------
\* the chunks one after the other
RECURSIVE Flatten(_)
Flatten(Chunks) ==
    IF Chunks = <<>> THEN <<>> ELSE Head(Chunks) \o Flatten(Tail(Chunks))

\* the last call was Distribute with n chunks and the given flag
Distributed(f) ==
    /\ op = "Distribute"
    /\ arg.Distributions >= 2
    /\ arg.ForceEqualDistribution = f

\* chunk i has floor(len/n) elements, and one more if it is one of the
\* first (len mod n) chunks
SizesNearEqual ==
    LET n == arg.Distributions
        q == Len(arg.Vector) \div n
        r == Len(arg.Vector) % n
    IN  /\ Len(ret.ReturnVector) = n
        /\ \A i \in 1..n :
              Len(ret.ReturnVector[i]) = IF i <= r THEN q + 1 ELSE q

\* C4 as stated: Distribute(s, n, false), n >= 2, returns n chunks of sizes
\* floor(len/n)+1 (the first len mod n) and floor(len/n) (the rest), and the
\* chunks one after the other are s.
C4_Original ==
    Distributed(FALSE) =>
        /\ ~ret.oob
        /\ SizesNearEqual
        /\ Flatten(ret.ReturnVector) = arg.Vector

\* C4 amended: Distribute(s, n, false), n >= 2, returns n chunks of sizes
\* floor(len/n)+1 (the first len mod n) and floor(len/n) (the rest); chunk i
\* starts with the floor(len/n) elements of s that follow those of chunk i-1,
\* in order, and each of the first (len mod n) chunks ends with one of the
\* last (len mod n) elements of s, chunk i with the i-th of them; the chunks
\* one after the other are s when len mod n = 0 or len < n.
C4_Distribute ==
    Distributed(FALSE) =>
        LET s == arg.Vector
            n == arg.Distributions
            q == Len(s) \div n
            r == Len(s) % n
            c == ret.ReturnVector
        IN  /\ ~ret.oob
            /\ SizesNearEqual
            /\ \A i \in 1..n : \A j \in 1..q : c[i][j] = s[(i - 1) * q + j]
            /\ \A i \in 1..r : c[i][q + 1] = s[n * q + i]
            /\ (r = 0 \/ Len(s) < n) => Flatten(c) = s
            /\ (s = Iota(10) /\ n = 3) =>
                   c = << <<1, 2, 3, 10>>, <<4, 5, 6>>, <<7, 8, 9>> >>

\* [1..10] has been distributed over 3 chunks, the 10 landing in the first
C4_Witness ==
    /\ Distributed(FALSE)
    /\ arg.Vector = Iota(10)
    /\ arg.Distributions = 3
    /\ Len(ret.ReturnVector[1]) = 4
    /\ ret.ReturnVector[1][4] = 10

\* C5: Distribute(s, n, true), n >= 2, returns exactly n chunks of
\* floor(len/n) elements each; the chunks one after the other are the first
\* n*floor(len/n) elements of s, so the last (len mod n) elements of s are
\* in no chunk.
C5_DistributeForceEqual ==
    Distributed(TRUE) =>
        LET s == arg.Vector
            n == arg.Distributions
            q == Len(s) \div n
            c == ret.ReturnVector
        IN  /\ ~ret.oob
            /\ Len(c) = n
            /\ \A i \in 1..n : Len(c[i]) = q
            /\ Flatten(c) = SubSeq(s, 1, n * q)
            /\ Len(Flatten(c)) = Len(s) - (Len(s) % n)
            /\ (s = Iota(10) /\ n = 3) =>
                   c = << <<1, 2, 3>>, <<4, 5, 6>>, <<7, 8, 9>> >>

\* [1..10] has been distributed over 3 equal chunks and the 10 is gone
C5_Witness ==
    /\ Distributed(TRUE)
    /\ arg.Vector = Iota(10)
    /\ arg.Distributions = 3
    /\ \A i \in 1..3 : \A j \in 1..Len(ret.ReturnVector[i]) :
          ret.ReturnVector[i][j] /= 10

\* C6: for n = 0 and n = 1, with either flag, Distribute(s, n, f) returns
\* exactly one chunk, equal to s; no subscript and no division happens.
C6_DistributeAtMostOne ==
    (op = "Distribute" /\ arg.Distributions <= 1) =>
        /\ ret.ReturnVector = <<arg.Vector>>
        /\ ~ret.oob
        /\ ret.Index = 0

\* a vector of several elements has been distributed over 0 chunks with
\* equal sizes forced, and came back whole
C6_Witness ==
    /\ op = "Distribute"
    /\ arg.Distributions = 0
    /\ arg.ForceEqualDistribution
    /\ Len(arg.Vector) >= 2
    /\ Len(ret.ReturnVector) = 1
    /\ ret.ReturnVector[1] = arg.Vector

\* how often the value v is in the sequence s
Occurrences(s, v) == Cardinality({i \in 1..Len(s) : s[i] = v})

\* C23: for every sequence s and n >= 2, Distribute(s, n, false) returns
\* exactly n chunks, empty trailing chunks when n > len(s); the chunks hold
\* every value as often as s does, so nothing is lost or duplicated; and any
\* two chunk sizes differ by at most 1.
C23_DistributeNothingLost ==
    Distributed(FALSE) =>
        LET s == arg.Vector
            n == arg.Distributions
            c == ret.ReturnVector
            all == Flatten(c)
        IN  /\ Len(c) = n
            /\ Len(all) = Len(s)
            /\ \A i \in 1..Len(s) : Occurrences(all, s[i]) = Occurrences(s, s[i])
            /\ \A i \in 1..Len(all) : Occurrences(s, all[i]) > 0
            /\ \A i, j \in 1..n : Len(c[i]) - Len(c[j]) <= 1
            /\ n > Len(s) => \A i \in (Len(s) + 1)..n : c[i] = <<>>

\* a sequence of two elements was distributed over more chunks than it has
\* elements: one element in each of the first two chunks, no other
C23_Witness ==
    /\ Distributed(FALSE)
    /\ Len(arg.Vector) = 2
    /\ arg.Distributions > 2
    /\ Len(ret.ReturnVector) = arg.Distributions
    /\ ret.ReturnVector[1] = <<arg.Vector[1]>>
    /\ ret.ReturnVector[2] = <<arg.Vector[2]>>
    /\ ret.ReturnVector[3] = <<>>

\* the position of the first occurrence of e in s
FirstOccurrence(s, e) == CHOOSE i \in 1..Len(s) :
                            s[i] = e /\ \A j \in 1..(i - 1) : s[j] /= e

\* the elements of s
Elements(s) == {s[i] : i \in 1..Len(s)}

\* no two positions of s hold equal elements
NoDuplicates(s) == \A i, j \in 1..Len(s) : i /= j => s[i] /= s[j]

\* r holds the distinct elements of s, each once, in the order of their
\* first occurrences in s
DistinctInFirstOccurrenceOrder(r, s) ==
    /\ NoDuplicates(r)
    /\ Elements(r) = Elements(s)
    /\ \A i, j \in 1..Len(r) :
          i < j => FirstOccurrence(s, r[i]) < FirstOccurrence(s, r[j])

\* C8: MakeUniqueInPlace(a) leaves a without equal elements, holding exactly
\* the distinct values of the original a in the order of their first
\* occurrences, and returns (original length) - (resulting length).
C8_MakeUniqueInPlace ==
    op = "MakeUniqueInPlace" =>
        /\ DistinctInFirstOccurrenceOrder(Vector1, arg.Vector)
        /\ ret = Len(arg.Vector) - Len(Vector1)

\* a vector whose duplicates were not adjacent has been de-duplicated: two
\* elements were removed and two distinct values are left
C8_Witness ==
    /\ op = "MakeUniqueInPlace"
    /\ ret = 2
    /\ Len(Vector1) = 2
    /\ arg.Vector[1] /= arg.Vector[2]
    /\ arg.Vector[3] = arg.Vector[1]

C10_CreateIntersectional ==
    op = "CreateIntersectional" =>
        LET a == arg.Vector1
            b == arg.Vector2
        IN  /\ NoDuplicates(ret)
            /\ Elements(ret) = Elements(a) \cap Elements(b)
            /\ \A i, j \in 1..Len(ret) :
                  i < j => FirstOccurrence(a, ret[i]) < FirstOccurrence(a, ret[j])
            /\ (a = <<>> \/ b = <<>>) => ret = <<>>
            /\ Vector1 = a /\ Vector2 = b

\* an intersection of two values that a holds in one order, one of them
\* twice, and b in the other order
C10_Witness ==
    /\ op = "CreateIntersectional"
    /\ Len(ret) = 2
    /\ Len(arg.Vector1) = 3
    /\ arg.Vector1[1] = arg.Vector1[3]
    /\ arg.Vector2[1] = ret[2]
    /\ arg.Vector2[2] = ret[1]

\* C11: CreateDifferential(base, cmp) holds exactly the values of base that
\* cmp lacks, each once, in the order of their first occurrences in base;
\* with cmp empty it is the de-duplicated base.
C11_CreateDifferential ==
    op = "CreateDifferential" =>
        LET base == arg.Vector1
            cmp == arg.Vector2
        IN  /\ NoDuplicates(ret)
            /\ Elements(ret) = Elements(base) \ Elements(cmp)
            /\ \A i, j \in 1..Len(ret) :
                  i < j => FirstOccurrence(base, ret[i]) < FirstOccurrence(base, ret[j])
            /\ cmp = <<>> => DistinctInFirstOccurrenceOrder(ret, base)
            /\ cmp = <<>> => ret = MakeUniqueInPlace(base).Vector
            /\ Vector1 = base /\ Vector2 = cmp

\* a differential of two values, the first of which base holds twice, while
\* a third value of base is in cmp
C11_Witness ==
    /\ op = "CreateDifferential"
    /\ Len(ret) = 2
    /\ Len(arg.Vector1) = 3
    /\ arg.Vector1[1] = arg.Vector1[3]
    /\ arg.Vector1[2] = ret[2]
    /\ arg.Vector2 /= <<>>
    /\ Elements(arg.Vector2) \cap Elements(arg.Vector1) = {}

\* C12: the elements of CreateSymmeticalDifference(a, b) are the elements of
\* CreateUnion(a, b) without those of CreateIntersectional(a, b), the result
\* has no duplicates, and CreateSymmeticalDifference(b, a) has the same
\* elements.
C12_CreateSymmeticalDifference ==
    op = "CreateSymmeticalDifference" =>
        LET a == arg.Vector1
            b == arg.Vector2
        IN  /\ Elements(ret) = Elements(CreateUnion(a, b))
                                  \ Elements(CreateIntersectional(a, b))
            /\ NoDuplicates(ret)
            /\ Elements(CreateSymmeticalDifference(b, a)) = Elements(ret)
            /\ Vector1 = a /\ Vector2 = b

\* a symmetric difference with an element from each side, while a third
\* value is in both a and b
C12_Witness ==
    /\ op = "CreateSymmeticalDifference"
    /\ Len(ret) = 2
    /\ ret[1] \in Elements(arg.Vector1) \ Elements(arg.Vector2)
    /\ ret[2] \in Elements(arg.Vector2) \ Elements(arg.Vector1)
    /\ Elements(arg.Vector1) \cap Elements(arg.Vector2) /= {}

\* C13: Erase(seq, i) returns a value for every i and leaves seq as it was;
\* for i < len it returns seq without the element at index i, the others in
\* their order (length len - 1); for i >= len, and for every i on an empty
\* seq, it returns a sequence equal to seq.
C13_Erase ==
    op = "Erase" =>
        LET seq == arg.Vector
            i == arg.Index
        IN  /\ Vector1 = seq
            /\ i < Len(seq) =>
                  /\ Len(ret) = Len(seq) - 1
                  /\ \A k \in 1..Len(ret) :
                        ret[k] = IF k <= i THEN seq[k] ELSE seq[k + 1]
            /\ i >= Len(seq) => ret = seq

\* an element that is neither the first nor the last was erased from a
\* sequence of three elements, and the two others are left
C13_Witness ==
    /\ op = "Erase"
    /\ arg.Index = 1
    /\ Len(arg.Vector) = 3
    /\ arg.Vector[1] /= arg.Vector[2]
    /\ arg.Vector[2] /= arg.Vector[3]
    /\ ret = <<arg.Vector[1], arg.Vector[3]>>

\* the in-place filters that keep the elements passing the test, and those
\* that keep the elements failing it
Inclusions == {"ConditionalInclusion_p", "ComparativeInclusion_p",
               "EqualityInclusion_p"}

Exclusions == {"ConditionalExclusion_p", "ComparativeExclusion_p",
               "EqualityExclusion_p"}

\* the test of the last filter call on the element x
FilterTest(x) ==
    CASE op \in {"ConditionalInclusion_p", "ConditionalExclusion_p"} ->
             ConditionalFunc(arg.ConditionalFunc, x)
      [] op \in {"ComparativeInclusion_p", "ComparativeExclusion_p"} ->
             ComparativeFunc(arg.ComparativeFunc, x, arg.CompVar)
      [] op \in {"EqualityInclusion_p", "EqualityExclusion_p"} ->
             x = arg.CompVar

\* C14: an in-place Inclusion filter leaves in the sequence exactly the
\* elements for which the test (unary predicate, comparison with a fixed
\* value, equality with a fixed value) is true, an in-place Exclusion filter
\* exactly those for which it is false, in their original order; each
\* returns the number of elements removed, and the returned count plus the
\* resulting length is the original length.
C14_InPlaceFilters ==
    op \in Inclusions \cup Exclusions =>
        LET s == arg.Vector
            Wanted(x) == FilterTest(x) <=> op \in Inclusions
        IN  /\ Vector1 = SelectSeq(s, Wanted)
            /\ ret = Cardinality({i \in 1..Len(s) : ~Wanted(s[i])})
            /\ ret + Len(Vector1) = Len(s)

\* an Exclusion filter has removed two elements that were not adjacent and
\* has left two
C14_Witness ==
    /\ op \in Exclusions
    /\ ret = 2
    /\ Len(arg.Vector) = 4
    /\ Vector1 = <<arg.Vector[2], arg.Vector[4]>>
    /\ arg.Vector[2] /= arg.Vector[4]

\* C15: on every sequence s and value e, FindElement(s, e) is the smallest
\* index that holds e, or -1 exactly when e is not in s; FindAllElement(s, e)
\* is the strictly increasing list of all indices that hold e;
\* CountElement(s, e) is the length of FindAllElement(s, e); and
\* ContainsElement(s, e) iff FindElement(s, e) /= -1 iff CountElement(s, e) > 0.
\* Each call returned the value the relation is stated for.
C15_Queries ==
    op \in {"FindElement", "FindAllElement", "CountElement", "ContainsElement"} =>
        LET s == arg.Vector
            e == arg.Element
            Matches == {i \in 0..(Len(s) - 1) : s[i + 1] = e}
            Found == FindElement(s, e)
            Positions == FindAllElement(s, e)
            Counter == CountElement(s, e)
            Contained == ContainsElement(s, e)
        IN  /\ Found = -1 <=> Matches = {}
            /\ Found /= -1 => (Found \in Matches /\ \A i \in Matches : Found <= i)
            /\ \A j, k \in 1..Len(Positions) : j < k => Positions[j] < Positions[k]
            /\ Elements(Positions) = Matches
            /\ Counter = Len(Positions)
            /\ Contained <=> Found /= -1
            /\ Contained <=> Counter > 0
            /\ op = "FindElement" => ret = Found
            /\ op = "FindAllElement" => ret = Positions
            /\ op = "CountElement" => ret = Counter
            /\ op = "ContainsElement" => ret = Contained
            /\ Vector1 = s

\* a value that the sequence holds twice, not at index 0, was looked for:
\* the first of its two indices is returned
C15_Witness ==
    /\ op = "FindElement"
    /\ ret = 1
    /\ CountElement(arg.Vector, arg.Element) = 2
    /\ FindAllElement(arg.Vector, arg.Element) = <<1, 3>>
    /\ ContainsElement(arg.Vector, arg.Element)

\* C30: in CreateSymmeticalDifference(a, b) the halves
\* CreateDifferential(a, b) and CreateDifferential(b, a) are without
\* duplicates and share no element, so the final MakeUniqueInPlace removes
\* nothing and the result is the first half followed by the second; its
\* length is Len(CreateUnion(a, b)) - Len(CreateIntersectional(a, b)).
C30_SymmeticalDifferenceHalves ==
    op = "CreateSymmeticalDifference" =>
        LET a == arg.Vector1
            b == arg.Vector2
            First == CreateDifferential(a, b)
            Second == CreateDifferential(b, a)
        IN  /\ NoDuplicates(First)
            /\ NoDuplicates(Second)
            /\ Elements(First) \cap Elements(Second) = {}
            /\ MakeUniqueInPlace(First \o Second).RemovedElements = 0
            /\ ret = First \o Second
            /\ Len(ret) = Len(CreateUnion(a, b)) - Len(CreateIntersectional(a, b))

\* a symmetric difference of an element that a holds twice, followed by
\* one of b, while a and b share a third element
C30_Witness ==
    /\ op = "CreateSymmeticalDifference"
    /\ Len(ret) = 2
    /\ Len(arg.Vector1) = 3
    /\ arg.Vector1[1] = ret[1]
    /\ arg.Vector1[3] = ret[1]
    /\ ret[2] \in Elements(arg.Vector2)
    /\ Len(CreateIntersectional(arg.Vector1, arg.Vector2)) = 1

------------------------------------------------------------------------------
(* Operations on a vector of objects (SegLibObjects.h) *)

\* The loop of EqualityInclusion_p from the object at position i on.
RECURSIVE EqualityInclusionLoop(_, _, _, _, _, _)
EqualityInclusionLoop(Objs, Member, CompVar, i, ReturnVector, ElementsRemoved) ==
    IF i > Len(Objs)
    THEN [ObjectVector |-> ReturnVector, ElementsRemoved |-> ElementsRemoved]
    ELSE LET CurrentElement == Objs[i]
         IN  IF CurrentElement[Member] = CompVar
             THEN EqualityInclusionLoop(Objs, Member, CompVar, i + 1,
                      Append(ReturnVector, CurrentElement), ElementsRemoved)
             ELSE EqualityInclusionLoop(Objs, Member, CompVar, i + 1,
                      ReturnVector, ElementsRemoved + 1)

\* a mutant: the test of the exclusion filter (!=) was pasted in
EqualityInclusion_p_Excludes(Objs, Member, CompVar) ==
    LET Kept == Pick(Objs, LAMBDA i : Objs[i][Member] /= CompVar)
    IN  [ObjectVector |-> Kept, ElementsRemoved |-> Len(Objs) - Len(Kept)]

\* EqualityInclusion_p: the vector afterwards and the returned count
EqualityInclusion_p(Objs, Member, CompVar) ==
    EqualityInclusionLoop(Objs, Member, CompVar, 1, <<>>, 0)

\* EqualityInclusion: the returned vector (the same loop, without the count)
EqualityInclusion(Objs, Member, CompVar) ==
    EqualityInclusionLoop(Objs, Member, CompVar, 1, <<>>, 0).ObjectVector

\* Extract: the attribute of each object, in order
Extract(Objs, Member) == [i \in 1..Len(Objs) |-> Objs[i][Member]]

\* ExtractOperate: OperativeFunc(attribute, OperationVar) of each object
ExtractOperate(Objs, Member, OperationVar, f) ==
    [i \in 1..Len(Objs) |-> OperativeFunc(f, Objs[i][Member], OperationVar)]

\* The loop of ExtractOperate_p from the object at position i on: the
\* attribute is assigned first and then read back into ReturnVector.
RECURSIVE ExtractOperateLoop(_, _, _, _, _, _)
ExtractOperateLoop(Objs, Member, OperationVar, f, i, ReturnVector) ==
    IF i > Len(Objs)
    THEN [ObjectVector |-> Objs, ReturnVector |-> ReturnVector]
    ELSE LET Assigned == [Objs EXCEPT ![i][Member] =
                             OperativeFunc(f, Objs[i][Member], OperationVar)]
         IN  ExtractOperateLoop(Assigned, Member, OperationVar, f, i + 1,
                 Append(ReturnVector, Assigned[i][Member]))

\* a mutant: the attribute is read into ReturnVector before it is assigned
ExtractOperate_p_ReadFirst(Objs, Member, OperationVar, f) ==
    [ObjectVector |-> [i \in 1..Len(Objs) |->
                          [Objs[i] EXCEPT ![Member] =
                              OperativeFunc(f, Objs[i][Member], OperationVar)]],
     ReturnVector |-> Extract(Objs, Member)]

\* ExtractOperate_p: the vector afterwards and the returned vector
ExtractOperate_p(Objs, Member, OperationVar, f) ==
    ExtractOperateLoop(Objs, Member, OperationVar, f, 1, <<>>)

\* ObjectVector[Index].*Member of the C++ code, Index counting from 0
MemberSubscript(Objs, Index, Member) ==
    IF Index < Len(Objs) THEN Objs[Index + 1][Member] ELSE 0

\* a mutant: the inner loop runs while x <= Indices, one round too many
RECURSIVE DistributeMemberInner_OneMore(_, _, _, _, _)
DistributeMemberInner_OneMore(Objs, Member, Indices, x, st) ==
    IF x > Indices THEN st
    ELSE DistributeMemberInner_OneMore(Objs, Member, Indices, x + 1,
            [CurrentDistribution |->
                 Append(st.CurrentDistribution,
                        MemberSubscript(Objs, st.Index, Member)),
             Index |-> st.Index + 1,
             oob   |-> st.oob \/ st.Index >= Len(Objs)])

\* The inner loop of DistributeMember, from x on.
RECURSIVE DistributeMemberInner(_, _, _, _, _)
DistributeMemberInner(Objs, Member, Indices, x, st) ==
    IF x >= Indices THEN st
    ELSE DistributeMemberInner(Objs, Member, Indices, x + 1,
            [CurrentDistribution |->
                 Append(st.CurrentDistribution,
                        MemberSubscript(Objs, st.Index, Member)),
             Index |-> st.Index + 1,
             oob   |-> st.oob \/ st.Index >= Len(Objs)])

\* The outer loop of DistributeMember, from i on.
RECURSIVE DistributeMemberOuter(_, _, _, _, _, _)
DistributeMemberOuter(Objs, Member, Distributions, Indices, i, st) ==
    IF i >= Distributions THEN st
    ELSE LET inner == DistributeMemberInner(Objs, Member, Indices, 0,
                          [CurrentDistribution |-> <<>>,
                           Index |-> st.Index, oob |-> st.oob])
         IN  DistributeMemberOuter(Objs, Member, Distributions, Indices, i + 1,
                 [ReturnVector |->
                      Append(st.ReturnVector, inner.CurrentDistribution),
                  Index |-> inner.Index,
                  oob   |-> inner.oob])

\* The remainder loop of DistributeMember, from i on.
RECURSIVE DistributeMemberRemainder(_, _, _, _, _)
DistributeMemberRemainder(Objs, Member, Remainder, i, st) ==
    IF i >= Remainder THEN st
    ELSE DistributeMemberRemainder(Objs, Member, Remainder, i + 1,
            [ReturnVector |->
                 IF i < Len(st.ReturnVector)
                 THEN [st.ReturnVector EXCEPT
                          ![i + 1] = Append(@, MemberSubscript(Objs, st.Index, Member))]
                 ELSE st.ReturnVector,
             Index |-> st.Index + 1,
             oob   |-> \/ st.oob
                       \/ st.Index >= Len(Objs)
                       \/ i >= Len(st.ReturnVector)])

\* DistributeMember past its guard
DistributeMemberChunks(Objs, Member, Distributions, ForceEqualDistribution) ==
    LET Indices == Len(Objs) \div Distributions
        Chunks  == DistributeMemberOuter(Objs, Member, Distributions, Indices, 0,
                       [ReturnVector |-> <<>>, Index |-> 0, oob |-> FALSE])
    IN  IF ForceEqualDistribution THEN Chunks
        ELSE DistributeMemberRemainder(Objs, Member,
                 Len(Objs) % Distributions, 0, Chunks)

\* a mutant: the flag is not passed on, as in the overload without it
DistributeMember_FlagLost(Objs, Member, Distributions, ForceEqualDistribution) ==
    IF Distributions <= 1
    THEN [ReturnVector |-> <<Extract(Objs, Member)>>, Index |-> 0, oob |-> FALSE]
    ELSE DistributeMemberChunks(Objs, Member, Distributions, FALSE)

\* DistributeMember: the returned chunks, the final value of Index, and
\* whether a subscript was out of bounds on the way
DistributeMember(Objs, Member, Distributions, ForceEqualDistribution) ==
    IF Distributions <= 1
    THEN [ReturnVector |-> <<Extract(Objs, Member)>>, Index |-> 0, oob |-> FALSE]
    ELSE DistributeMemberChunks(Objs, Member, Distributions, ForceEqualDistribution)

------------------------------------------------------------------------------
(* Calls on a vector of objects *)

CallEqualityInclusion_p(m, v) ==
    LET r == EqualityInclusion_p(ObjectVector, m, v)
    IN  /\ op' = "EqualityInclusion_p"
        /\ arg' = [ObjectVector |-> ObjectVector, Member |-> m, CompVar |-> v]
        /\ ObjectVector' = r.ObjectVector
        /\ ret' = r.ElementsRemoved
        /\ UNCHANGED <<Links, Vector1, Vector2>>

CallEqualityInclusion(m, v) ==
    /\ op' = "EqualityInclusion"
    /\ arg' = [ObjectVector |-> ObjectVector, Member |-> m, CompVar |-> v]
    /\ ret' = EqualityInclusion(ObjectVector, m, v)
    /\ UNCHANGED <<ObjectVector, Links, Vector1, Vector2>>

CallExtract(m) ==
    /\ op' = "Extract"
    /\ arg' = [ObjectVector |-> ObjectVector, Member |-> m]
    /\ ret' = Extract(ObjectVector, m)
    /\ UNCHANGED <<ObjectVector, Links, Vector1, Vector2>>

CallExtractOperate(m, k, f) ==
    /\ op' = "ExtractOperate"
    /\ arg' = [ObjectVector |-> ObjectVector, Member |-> m,
               OperationVar |-> k, OperativeFunc |-> f]
    /\ ret' = ExtractOperate(ObjectVector, m, k, f)
    /\ UNCHANGED <<ObjectVector, Links, Vector1, Vector2>>

CallExtractOperate_p(m, k, f) ==
    LET r == ExtractOperate_p(ObjectVector, m, k, f)
    IN  /\ op' = "ExtractOperate_p"
        /\ arg' = [ObjectVector |-> ObjectVector, Member |-> m,
                   OperationVar |-> k, OperativeFunc |-> f]
        /\ ObjectVector' = r.ObjectVector
        /\ ret' = r.ReturnVector
        /\ UNCHANGED <<Links, Vector1, Vector2>>

CallDistributeMember(m, n, f) ==
    LET r == DistributeMember(ObjectVector, m, n, f)
    IN  /\ op' = "DistributeMember"
        /\ arg' = [ObjectVector |-> ObjectVector, Member |-> m,
                   Distributions |-> n, ForceEqualDistribution |-> f]
        /\ IF r.oob
           THEN ret' \in {[r EXCEPT !.ReturnVector = c] : c \in UndefinedChunks}
           ELSE ret' = r
        /\ UNCHANGED <<ObjectVector, Links, Vector1, Vector2>>

InitObject ==
    /\ op = "init"
    /\ arg = NoArg
    /\ ret = NoRet
    /\ ObjectVector \in SeqsUpTo(Objects, MaxObjs)
                        \cup {StripedObjects(k) : k \in 0..MaxStriped}
    /\ Links = <<>>
    /\ Vector1 = <<>>
    /\ Vector2 = <<>>

NextObject ==
    \/ \E m \in Members, v \in Values : CallEqualityInclusion_p(m, v)
    \/ \E m \in Members, v \in Values : CallEqualityInclusion(m, v)
    \/ \E m \in Members : CallExtract(m)
    \/ \E m \in Members, k \in Values, f \in Operations : CallExtractOperate(m, k, f)
    \/ \E m \in Members, k \in Values, f \in Operations : CallExtractOperate_p(m, k, f)

SpecObject == InitObject /\ [][NextObject]_vars

InitDistributeMember ==
    /\ op = "init"
    /\ arg = NoArg
    /\ ret = NoRet
    /\ ObjectVector \in SeqsUpTo(Objects, MaxObjs)
                        \cup {IotaObjects(k) : k \in 0..MaxIota}
    /\ Links = <<>>
    /\ Vector1 = <<>>
    /\ Vector2 = <<>>

NextDistributeMember ==
    \E m \in Members, n \in 0..MaxDistributions, f \in BOOLEAN :
        CallDistributeMember(m, n, f)

SpecDistributeMember == InitDistributeMember /\ [][NextDistributeMember]_vars

------------------------------------------------------------------------------
\* C2: EqualityInclusion_p(objs, m, v) leaves objs holding exactly the
\* objects whose attribute m equals v, in their original relative order; every
\* object whose attribute differs is gone; the returned count is the number
\* of objects removed, (length before) - (length after).
C2_EqualityInclusion_p ==
    op = "EqualityInclusion_p" =>
        LET Matches(o) == o[arg.Member] = arg.CompVar
            Differing  == {i \in 1..Len(arg.ObjectVector) :
                              ~Matches(arg.ObjectVector[i])}
        IN  /\ ObjectVector = SelectSeq(arg.ObjectVector, Matches)
            /\ \A i \in 1..Len(ObjectVector) : Matches(ObjectVector[i])
            /\ ret = Cardinality(Differing)
            /\ ret = Len(arg.ObjectVector) - Len(ObjectVector)

\* a filter has removed an object that stood between two objects it kept
C2_Witness ==
    /\ op = "EqualityInclusion_p"
    /\ Len(arg.ObjectVector) >= 3
    /\ arg.ObjectVector[1][arg.Member] = arg.CompVar
    /\ arg.ObjectVector[2][arg.Member] /= arg.CompVar
    /\ arg.ObjectVector[3][arg.Member] = arg.CompVar
    /\ ret >= 1
    /\ Len(ObjectVector) >= 2
    /\ ObjectVector[1] /= ObjectVector[2]

C7_DistributeMember ==
    op = "DistributeMember" =>
        LET d == Distribute(Extract(arg.ObjectVector, arg.Member),
                            arg.Distributions, arg.ForceEqualDistribution)
        IN  /\ ~ret.oob /\ ~d.oob
            /\ Len(ret.ReturnVector) = Len(d.ReturnVector)
            /\ \A i \in 1..Len(d.ReturnVector) :
                  /\ Len(ret.ReturnVector[i]) = Len(d.ReturnVector[i])
                  /\ \A j \in 1..Len(d.ReturnVector[i]) :
                        ret.ReturnVector[i][j] = d.ReturnVector[i][j]

\* the attribute of ten objects has been distributed over 3 equal chunks,
\* the tenth being dropped
C7_Witness ==
    /\ op = "DistributeMember"
    /\ arg.ObjectVector = IotaObjects(10)
    /\ arg.Member = "score"
    /\ arg.Distributions = 3
    /\ arg.ForceEqualDistribution
    /\ ret.ReturnVector = << <<1, 2, 3>>, <<4, 5, 6>>, <<7, 8, 9>> >>

\* the value of Index that the loops end with: n * floor(len / n) after the
\* chunk loops, len after the remainder loop, 0 when the guard returned
FinalIndex(Length, Distributions, ForceEqualDistribution) ==
    IF Distributions <= 1 THEN 0
    ELSE IF ForceEqualDistribution
    THEN Distributions * (Length \div Distributions)
    ELSE Length

\* C24: in Distribute and DistributeMember, for every input length, every
\* chunk count n and either flag, Index is below the input length whenever
\* the input is subscripted and the remainder loop writes to chunks below n
\* only, so no access is out of bounds; Index ends at n * floor(len / n)
\* after the chunk loops and at len after the remainder loop.
C24_IndexInBounds ==
    op = "DistributeMember" =>
        LET n == arg.Distributions
            f == arg.ForceEqualDistribution
            d == Distribute(Extract(arg.ObjectVector, arg.Member), n, f)
            Last == FinalIndex(Len(arg.ObjectVector), n, f)
        IN  /\ ~ret.oob
            /\ ret.Index = Last
            /\ ~d.oob
            /\ d.Index = Last
            /\ Last <= Len(arg.ObjectVector)

\* the attribute of ten objects has been distributed over 4 chunks; the
\* remainder loop has read the last two objects and Index is 10
C24_Witness ==
    /\ op = "DistributeMember"
    /\ Len(arg.ObjectVector) = 10
    /\ arg.Distributions = 4
    /\ ~arg.ForceEqualDistribution
    /\ ~ret.oob
    /\ ret.Index = 10
    /\ Len(ret.ReturnVector[2]) = 3
    /\ Len(ret.ReturnVector[3]) = 2

------------------------------------------------------------------------------
(* ExtractLinked (SegLibObjects.h) *)

\* a mutant: the loop variable is a copy, and every view is bound to one
\* and the same object
ExtractLinked_OneObject(Objs, Member) ==
    [i \in 1..Len(Objs) |-> LinkedMember(Objs, 1, Member)]

\* ExtractLinked: one view per element, bound to the element itself
ExtractLinked(Objs, Member) ==
    [i \in 1..Len(Objs) |-> LinkedMember(Objs, i, Member)]

\* the caller extracts the views of attribute m of ObjectVector, once
CallExtractLinked(m) ==
    /\ Links = <<>>
    /\ op' = "ExtractLinked"
    /\ arg' = [k |-> 0, old |-> 0, Member |-> m]
    /\ Links' = ExtractLinked(ObjectVector, m)
    /\ UNCHANGED <<ret, ObjectVector, Vector1, Vector2>>

InitExtractLinked ==
    /\ op = "init"
    /\ arg = [k |-> 0, old |-> 0]
    /\ ret = NoRet
    /\ ObjectVector \in {IotaObjects(k) : k \in 0..MaxObjs}
                        \cup {StripedObjects(k) : k \in 0..MaxObjs}
    /\ Links = <<>>
    /\ Vector1 = <<>>
    /\ Vector2 = <<>>

NextExtractLinked ==
    \/ \E m \in Members : CallExtractLinked(m)
    \/ \E k \in 1..MaxObjs, v \in Values : SetMember(k, v)
    \/ \E k \in 1..MaxObjs : Commit(k)

SpecExtractLinked == InitExtractLinked /\ [][NextExtractLinked]_vars

\* the objects after a Commit of the views from position k on
RECURSIVE CommitAll(_, _, _)
CommitAll(Objs, Views, k) ==
    IF k > Len(Views) THEN Objs
    ELSE CommitAll(CommitLink(Objs, Views[k]), Views, k + 1)

\* C28: ExtractLinked(objs, m) returns Len(objs) views in input order, view
\* i bound to the live objs[i] and attribute m, its working copy being
\* objs[i].m, and leaves objs as it is; afterwards a Commit of view i changes
\* attribute m of objs[i] only, and committing all views makes
\* Extract(objs, m) the sequence of the working copies.
C28_ExtractLinked ==
    [][
        /\ op' = "ExtractLinked" =>
              /\ Len(Links') = Len(ObjectVector)
              /\ \A i \in 1..Len(ObjectVector) :
                    /\ Links'[i].ClassPtr = i
                    /\ Links'[i].MemberTypePtr = arg'.Member
                    /\ Links'[i].Member = ObjectVector[i][arg'.Member]
              /\ ObjectVector' = ObjectVector
        /\ op' = "Commit" =>
              /\ ObjectVector'[arg'.k][BoundMember(arg'.k)] = Links[arg'.k].Member
              /\ Len(ObjectVector') = Len(ObjectVector)
              /\ \A j \in 1..Len(ObjectVector), n \in Members :
                    (j /= arg'.k \/ n /= BoundMember(arg'.k))
                        => ObjectVector'[j][n] = ObjectVector[j][n]
              /\ Links' = Links
        /\ Links' /= <<>> =>
              LET Committed == CommitAll(ObjectVector', Links', 1)
              IN  /\ Extract(Committed, BoundMember(1)')
                         = [i \in 1..Len(Links') |-> Links'[i].Member]
                  /\ \A j \in 1..Len(ObjectVector'), n \in Members :
                        n /= BoundMember(1)' =>
                            Committed[j][n] = ObjectVector'[j][n]
    ]_vars

\* the second of two views has committed an edit: the second object holds
\* it, the first object does not hold the edit of the first view
C28_Witness ==
    /\ op = "Commit"
    /\ arg.k = 2
    /\ Len(Links) = 2
    /\ Links[2].ClassPtr = 2
    /\ arg.old /= Links[2].Member
    /\ ObjectVector[2][BoundMember(2)] = Links[2].Member
    /\ ObjectVector[1][BoundMember(1)] /= Links[1].Member

------------------------------------------------------------------------------
(* The filters and Operate that return a new vector, beside the ones that  *)
(* work in place (SegLibVector.h, SegLibObjects.h)                         *)

\* The six filters that return a new vector, by name, each with the
\* arguments a caller passes after the vector (and, in SLO, the member).
FilterArgs ==
    "ConditionalInclusion" :> {[ConditionalFunc |-> c] : c \in Conditions}
    @@ "ConditionalExclusion" :> {[ConditionalFunc |-> c] : c \in Conditions}
    @@ "ComparativeInclusion" :>
           {[CompVar |-> v, ComparativeFunc |-> f] : v \in Values, f \in Comparisons}
    @@ "ComparativeExclusion" :>
           {[CompVar |-> v, ComparativeFunc |-> f] : v \in Values, f \in Comparisons}
    @@ "EqualityInclusion" :> {[CompVar |-> v] : v \in Values}
    @@ "EqualityExclusion" :> {[CompVar |-> v] : v \in Values}

\* the name of the filter that works in place, for each of them
InPlace ==
    "ConditionalInclusion" :> "ConditionalInclusion_p"
    @@ "ConditionalExclusion" :> "ConditionalExclusion_p"
    @@ "ComparativeInclusion" :> "ComparativeInclusion_p"
    @@ "ComparativeExclusion" :> "ComparativeExclusion_p"
    @@ "EqualityInclusion" :> "EqualityInclusion_p"
    @@ "EqualityExclusion" :> "EqualityExclusion_p"

\* The condition of the if statement in the loop of filter F, in either
\* form, called with the arguments a: whether an element, or an attribute,
\* x is kept.
Test(F, a) ==
    [x \in Values |->
        CASE F = "ConditionalInclusion" -> ConditionalFunc(a.ConditionalFunc, x)
          [] F = "ConditionalExclusion" -> ~ConditionalFunc(a.ConditionalFunc, x)
          [] F = "ComparativeInclusion" ->
                 ComparativeFunc(a.ComparativeFunc, x, a.CompVar)
          [] F = "ComparativeExclusion" ->
                 ~ComparativeFunc(a.ComparativeFunc, x, a.CompVar)
          [] F = "EqualityInclusion" -> x = a.CompVar
          [] F = "EqualityExclusion" -> x /= a.CompVar]

\* The loop of the SLV filters that return a new vector, from the element
\* at position i on: CurrentElement goes to ReturnVector if the test
\* accepts it.  Vector is read only.
RECURSIVE KeepLoop(_, _, _, _)
KeepLoop(Vector, Keep, i, ReturnVector) ==
    IF i > Len(Vector) THEN ReturnVector
    ELSE LET CurrentElement == Vector[i]
         IN  KeepLoop(Vector, Keep, i + 1,
                 IF Keep[CurrentElement]
                 THEN Append(ReturnVector, CurrentElement)
                 ELSE ReturnVector)

\* SLV::F(a.Vector, ...): the returned vector
SLV_Filter(F, a) == KeepLoop(a.Vector, Test(F, a), 1, <<>>)

\* The loop of the SLO filters that return a new vector.
RECURSIVE MemberKeepLoop(_, _, _, _, _)
MemberKeepLoop(Objs, Member, Keep, i, ReturnVector) ==
    IF i > Len(Objs) THEN ReturnVector
    ELSE LET CurrentElement == Objs[i]
         IN  MemberKeepLoop(Objs, Member, Keep, i + 1,
                 IF Keep[CurrentElement[Member]]
                 THEN Append(ReturnVector, CurrentElement)
                 ELSE ReturnVector)

\* The loop of the SLO filters that work in place: an object that is not
\* kept is counted in ElementsRemoved.
RECURSIVE MemberFilterLoop(_, _, _, _, _, _)
MemberFilterLoop(Objs, Member, Keep, i, ReturnVector, ElementsRemoved) ==
    IF i > Len(Objs)
    THEN [ObjectVector |-> ReturnVector, ElementsRemoved |-> ElementsRemoved]
    ELSE LET CurrentElement == Objs[i]
         IN  IF Keep[CurrentElement[Member]]
             THEN MemberFilterLoop(Objs, Member, Keep, i + 1,
                      Append(ReturnVector, CurrentElement), ElementsRemoved)
             ELSE MemberFilterLoop(Objs, Member, Keep, i + 1,
                      ReturnVector, ElementsRemoved + 1)

\* SLO::F(a.ObjectVector, a.Member, ...): the returned vector
SLO_Filter(F, a) == MemberKeepLoop(a.ObjectVector, a.Member, Test(F, a), 1, <<>>)

\* SLO::F_p(a.ObjectVector, a.Member, ...): the vector afterwards and the
\* returned count
SLO_Filter_p(F, a) ==
    MemberFilterLoop(a.ObjectVector, a.Member, Test(F, a), 1, <<>>, 0)

\* The operand of Operate and Operate_p is a const reference.  The caller
\* binds it to a variable of its own that holds the value at, or to a place
\* in the vector it passes: the element at position at (in = "Vector"), or
\* the attribute in of the object at position at.
References(Vec, Places) ==
    {[in |-> "caller", at |-> k] : k \in Values}
        \cup {[in |-> p, at |-> i] : p \in Places, i \in 1..Len(Vec)}

\* the value read through the reference r while the vector is Vec
Referent(Vec, r) ==
    CASE r.in = "caller" -> r.at
      [] r.in = "Vector" -> Vec[r.at]
      [] OTHER -> Vec[r.at][r.in]

\* SLV::Operate: Vector is read only, the results go to ReturnVector
SLV_Operate(Vector, OperativeVar, f) ==
    [i \in 1..Len(Vector) |->
        OperativeFunc(f, Vector[i], Referent(Vector, OperativeVar))]

\* The loop of SLV::Operate_p from the element at position i on: each
\* element is assigned in turn, and OperativeVar is read through the
\* reference in every round.
RECURSIVE SLV_OperateLoop(_, _, _, _)
SLV_OperateLoop(Vector, OperativeVar, f, i) ==
    IF i > Len(Vector) THEN Vector
    ELSE SLV_OperateLoop(
             [Vector EXCEPT ![i] =
                 OperativeFunc(f, Vector[i], Referent(Vector, OperativeVar))],
             OperativeVar, f, i + 1)

\* SLO::Operate on a vector: the objects are copied into ReturnVector
\* first and the attribute of each copy is assigned in turn; ObjectVector,
\* through which OperationVar may read, is read only.
SLO_Operate(Objs, Member, OperationVar, f) ==
    [i \in 1..Len(Objs) |->
        [Objs[i] EXCEPT ![Member] =
            OperativeFunc(f, Objs[i][Member], Referent(Objs, OperationVar))]]

\* The loop of SLO::Operate_p on a vector from the object at position i on:
\* the attribute of each object is assigned in turn, and OperationVar is
\* read through the reference in every round.
RECURSIVE SLO_OperateLoop(_, _, _, _, _)
SLO_OperateLoop(Objs, Member, OperationVar, f, i) ==
    IF i > Len(Objs) THEN Objs
    ELSE SLO_OperateLoop(
             [Objs EXCEPT ![i][Member] =
                 OperativeFunc(f, Objs[i][Member], Referent(Objs, OperationVar))],
             Member, OperationVar, f, i + 1)

------------------------------------------------------------------------------
(* Calls of a filter or of Operate in either form, on a vector of elements *)
(* or on a vector of objects                                               *)

\* SLV::F(Vector1, x...)
CallSLV_Filter(F, x) ==
    LET a == [Vector |-> Vector1] @@ x
    IN  /\ op' = F
        /\ arg' = a
        /\ ret' = SLV_Filter(F, a)
        /\ UNCHANGED <<ObjectVector, Links, Vector1, Vector2>>

\* SLO::F(ObjectVector, m, x...)
CallSLO_Filter(F, m, x) ==
    LET a == [ObjectVector |-> ObjectVector, Member |-> m] @@ x
    IN  /\ op' = F
        /\ arg' = a
        /\ ret' = SLO_Filter(F, a)
        /\ UNCHANGED <<ObjectVector, Links, Vector1, Vector2>>

\* SLO::F_p(ObjectVector, m, x...)
CallSLO_Filter_p(F, m, x) ==
    LET a == [ObjectVector |-> ObjectVector, Member |-> m] @@ x
        r == SLO_Filter_p(F, a)
    IN  /\ op' = InPlace[F]
        /\ arg' = a
        /\ ObjectVector' = r.ObjectVector
        /\ ret' = r.ElementsRemoved
        /\ UNCHANGED <<Links, Vector1, Vector2>>

CallSLV_Operate(r, f) ==
    /\ op' = "Operate"
    /\ arg' = [Vector |-> Vector1, OperativeVar |-> r, OperativeFunc |-> f]
    /\ ret' = SLV_Operate(Vector1, r, f)
    /\ UNCHANGED <<ObjectVector, Links, Vector1, Vector2>>

CallSLV_Operate_p(r, f) ==
    /\ op' = "Operate_p"
    /\ arg' = [Vector |-> Vector1, OperativeVar |-> r, OperativeFunc |-> f]
    /\ Vector1' = SLV_OperateLoop(Vector1, r, f, 1)
    /\ ret' = NoRet
    /\ UNCHANGED <<ObjectVector, Links, Vector2>>

CallSLO_Operate(m, r, f) ==
    /\ op' = "Operate"
    /\ arg' = [ObjectVector |-> ObjectVector, Member |-> m, OperationVar |-> r,
               OperativeFunc |-> f]
    /\ ret' = SLO_Operate(ObjectVector, m, r, f)
    /\ UNCHANGED <<ObjectVector, Links, Vector1, Vector2>>

CallSLO_Operate_p(m, r, f) ==
    /\ op' = "Operate_p"
    /\ arg' = [ObjectVector |-> ObjectVector, Member |-> m, OperationVar |-> r,
               OperativeFunc |-> f]
    /\ ObjectVector' = SLO_OperateLoop(ObjectVector, m, r, f, 1)
    /\ ret' = NoRet
    /\ UNCHANGED <<Links, Vector1, Vector2>>

\* the caller holds a vector of elements or a vector of objects
InitInPlace ==
    /\ op = "init"
    /\ arg = NoArg
    /\ ret = NoRet
    /\ Links = <<>>
    /\ Vector2 = <<>>
    /\ \/ Vector1 \in SeqsUpTo(Values, MaxPairLen) /\ ObjectVector = <<>>
       \/ Vector1 = <<>> /\ ObjectVector \in SeqsUpTo(Objects, MaxObjs)

NextInPlace ==
    \/ \E F \in DOMAIN FilterArgs : \E x \in FilterArgs[F] : CallSLV_Filter(F, x)
    \/ \E c \in Conditions : CallConditionalInclusion_p(c)
    \/ \E c \in Conditions : CallConditionalExclusion_p(c)
    \/ \E v \in Values, f \in Comparisons : CallComparativeInclusion_p(v, f)
    \/ \E v \in Values, f \in Comparisons : CallComparativeExclusion_p(v, f)
    \/ \E v \in Values : CallSLV_EqualityInclusion_p(v)
    \/ \E v \in Values : CallSLV_EqualityExclusion_p(v)
    \/ \E r \in References(Vector1, {"Vector"}), f \in Operations :
           CallSLV_Operate(r, f)
    \/ \E r \in References(Vector1, {"Vector"}), f \in Operations :
           CallSLV_Operate_p(r, f)
    \/ \E m \in Members, F \in DOMAIN FilterArgs : \E x \in FilterArgs[F] :
           CallSLO_Filter(F, m, x)
    \/ \E m \in Members, F \in DOMAIN FilterArgs : \E x \in FilterArgs[F] :
           CallSLO_Filter_p(F, m, x)
    \/ \E m \in Members, r \in References(ObjectVector, Members), f \in Operations :
           CallSLO_Operate(m, r, f)
    \/ \E m \in Members, r \in References(ObjectVector, Members), f \in Operations :
           CallSLO_Operate_p(m, r, f)

SpecInPlace == InitInPlace /\ [][NextInPlace]_vars

\* the last call was made on a vector of elements
OnElements == "Vector" \in DOMAIN arg

\* the last call was made on a vector of objects
OnObjects == "ObjectVector" \in DOMAIN arg /\ "Member" \in DOMAIN arg

\* the filter that returns a new vector, for the name P of a filter that
\* works in place
Counterpart(P) == CHOOSE F \in DOMAIN InPlace : InPlace[F] = P

InPlaceFilters == {InPlace[F] : F \in DOMAIN InPlace}

\* a call of a form that returns a new vector returns that vector and
\* leaves its input as it was
PureLeavesInput ==
    /\ (op \in DOMAIN InPlace /\ OnElements)
           => Vector1 = arg.Vector /\ ret = SLV_Filter(op, arg)
    /\ (op \in DOMAIN InPlace /\ OnObjects)
           => ObjectVector = arg.ObjectVector /\ ret = SLO_Filter(op, arg)
    /\ (op = "Operate" /\ OnElements)
           => /\ Vector1 = arg.Vector
              /\ ret = SLV_Operate(arg.Vector, arg.OperativeVar, arg.OperativeFunc)
    /\ (op = "Operate" /\ OnObjects)
           => /\ ObjectVector = arg.ObjectVector
              /\ ret = SLO_Operate(arg.ObjectVector, arg.Member, arg.OperationVar,
                                   arg.OperativeFunc)

\* after a filter that works in place the input holds what the other form
\* returns on the original input
InPlaceFiltersAgree ==
    /\ (op \in InPlaceFilters /\ OnElements)
           => Vector1 = SLV_Filter(Counterpart(op), arg)
    /\ (op \in InPlaceFilters /\ OnObjects)
           => ObjectVector = SLO_Filter(Counterpart(op), arg)

\* the same after Operate_p
InPlaceOperateAgrees ==
    /\ (op = "Operate_p" /\ OnElements)
           => Vector1 = SLV_Operate(arg.Vector, arg.OperativeVar, arg.OperativeFunc)
    /\ (op = "Operate_p" /\ OnObjects)
           => ObjectVector = SLO_Operate(arg.ObjectVector, arg.Member,
                                         arg.OperationVar, arg.OperativeFunc)

\* the operand of the last Operate_p is not an element, or an attribute of
\* an object, of the vector it was called on
OperandOutside ==
    arg[IF OnElements THEN "OperativeVar" ELSE "OperationVar"].in = "caller"

\* Operate_p agrees with Operate whenever the operand is outside the vector
InPlaceOperateAgreesOutside ==
    (op = "Operate_p" /\ OperandOutside) => InPlaceOperateAgrees

\* C29: every form that works in place computes the result of the form that
\* returns a new vector: for each of the six filters and for Operate, on a
\* vector of elements and on a vector of objects, the input after F_p holds
\* what F returns on the original input, and F leaves its input as it was.
C29_Original ==
    /\ PureLeavesInput
    /\ InPlaceFiltersAgree
    /\ InPlaceOperateAgrees

------------------------------------------------------------------------------
(* Numbers (SegLibNumerical.h, SegLibNumerical.cpp) *)

\* SLN::IsEven
IsEven(Value) == Value % 2 = 0

\* The for loop of IsPrime from the divisor i on.  Value is greater than 3
\* here, so the C++ % and the % of TLA+ agree.
RECURSIVE IsPrimeLoop(_, _)
IsPrimeLoop(Value, i) ==
    IF ~(i * i <= Value) THEN TRUE
    ELSE IF Value % i = 0 \/ Value % (i + 2) = 0 THEN FALSE
    ELSE IsPrimeLoop(Value, i + 6)

\* a mutant: the loop tests the divisors 6k - 1 only
RECURSIVE IsPrimeLoop_MinusOneOnly(_, _)
IsPrimeLoop_MinusOneOnly(Value, i) ==
    IF ~(i * i <= Value) THEN TRUE
    ELSE IF Value % i = 0 THEN FALSE
    ELSE IsPrimeLoop_MinusOneOnly(Value, i + 6)

IsPrime_MinusOneOnly(Value) ==
    IF Value <= 1 THEN FALSE
    ELSE IF Value <= 3 THEN TRUE
    ELSE IF IsEven(Value) THEN FALSE
    ELSE IF Value % 3 = 0 THEN FALSE
    ELSE IsPrimeLoop_MinusOneOnly(Value, 5)

\* SLN::IsPrime
IsPrime(Value) ==
    IF Value <= 1 THEN FALSE
    ELSE IF Value <= 3 THEN TRUE
    ELSE IF IsEven(Value) THEN FALSE
    ELSE IF Value % 3 = 0 THEN FALSE
    ELSE IsPrimeLoop(Value, 5)

\* SLN::IsComposite
IsComposite(Value) == Value > 1 /\ ~IsPrime(Value)

\* the first value of Index in GeneratePrimes
PrimesStart == 5
\* the first value of Index in GenerateComposites
CompositesStart == 0

\* The while loop of GeneratePrimes: Index goes up by one until Primes holds
\* Limit values.
RECURSIVE GeneratePrimesLoop(_, _, _)
GeneratePrimesLoop(Limit, Index, Primes) ==
    IF ~(Len(Primes) /= Limit) THEN Primes
    ELSE GeneratePrimesLoop(Limit, Index + 1,
             IF IsPrime(Index) THEN Append(Primes, Index) ELSE Primes)

\* a mutant: Index goes up by six, as the divisor of IsPrime does
RECURSIVE GeneratePrimesLoop_BySix(_, _, _)
GeneratePrimesLoop_BySix(Limit, Index, Primes) ==
    IF ~(Len(Primes) /= Limit) THEN Primes
    ELSE GeneratePrimesLoop_BySix(Limit, Index + 6,
             IF IsPrime(Index) THEN Append(Primes, Index) ELSE Primes)

GeneratePrimes_BySix(Limit) == GeneratePrimesLoop_BySix(Limit, PrimesStart, <<>>)

\* SLN::GeneratePrimes
GeneratePrimes(Limit) == GeneratePrimesLoop(Limit, PrimesStart, <<>>)

\* The while loop of GenerateComposites
RECURSIVE GenerateCompositesLoop(_, _, _)
GenerateCompositesLoop(Limit, Index, Composites) ==
    IF ~(Len(Composites) /= Limit) THEN Composites
    ELSE GenerateCompositesLoop(Limit, Index + 1,
             IF IsComposite(Index) THEN Append(Composites, Index) ELSE Composites)

\* a mutant: Index starts where the Index of GeneratePrimes starts
GenerateComposites_FromPrimesStart(Limit) ==
    GenerateCompositesLoop(Limit, PrimesStart, <<>>)

\* SLN::GenerateComposites
GenerateComposites(Limit) == GenerateCompositesLoop(Limit, CompositesStart, <<>>)

------------------------------------------------------------------------------
(* Calls of the prime and composite functions *)

CallIsPrime(x) ==
    /\ op' = "IsPrime"
    /\ arg' = [Value |-> x]
    /\ ret' = IsPrime(x)
    /\ UNCHANGED <<ObjectVector, Links, Vector1, Vector2>>

CallIsComposite(x) ==
    /\ op' = "IsComposite"
    /\ arg' = [Value |-> x]
    /\ ret' = IsComposite(x)
    /\ UNCHANGED <<ObjectVector, Links, Vector1, Vector2>>

CallGeneratePrimes(n) ==
    /\ op' = "GeneratePrimes"
    /\ arg' = [Limit |-> n]
    /\ ret' = GeneratePrimes(n)
    /\ UNCHANGED <<ObjectVector, Links, Vector1, Vector2>>

CallGenerateComposites(n) ==
    /\ op' = "GenerateComposites"
    /\ arg' = [Limit |-> n]
    /\ ret' = GenerateComposites(n)
    /\ UNCHANGED <<ObjectVector, Links, Vector1, Vector2>>

InitPrimes ==
    /\ op = "init"
    /\ arg = NoArg
    /\ ret = NoRet
    /\ ObjectVector = <<>>
    /\ Links = <<>>
    /\ Vector1 = <<>>
    /\ Vector2 = <<>>

NextPrimes ==
    \/ \E x \in (-MaxPrimeArg)..MaxPrimeArg : CallIsPrime(x)
    \/ \E x \in (-MaxPrimeArg)..MaxPrimeArg : CallIsComposite(x)
    \/ \E n \in 0..MaxLimit : CallGeneratePrimes(n)
    \/ \E n \in 0..MaxLimit : CallGenerateComposites(n)

SpecPrimes == InitPrimes /\ [][NextPrimes]_vars

------------------------------------------------------------------------------
(* AverageType (SegLibNumerical.h) on a std::vector<int>.  An int has 32   *)
(* bits and a size_t 64 bits.  A size_t is written as four limbs of 16     *)
(* bits, the most significant first, so that no intermediate value leaves  *)
(* the 32 bits of the integers of the model checker.                       *)

\* the elements of a container of signed integers
SignedValues == (-MaxVal)..MaxVal

\* the base of a limb, 2^16
LimbBase == 65536

\* the conversion of the int Sum to size_t: Sum modulo 2^64
IntToSizeT(Sum) ==
    LET Sign == IF Sum < 0 THEN LimbBase - 1 ELSE 0
    IN  <<Sign, Sign, (Sum \div LimbBase) % LimbBase, Sum % LimbBase>>

\* the unsigned division of a size_t by a size_t below 2^15, limb by limb
RECURSIVE SizeTDivideLoop(_, _, _, _, _)
SizeTDivideLoop(Limbs, Divisor, k, Carry, Quotient) ==
    IF k > Len(Limbs) THEN Quotient
    ELSE LET Current == Carry * LimbBase + Limbs[k]
         IN  SizeTDivideLoop(Limbs, Divisor, k + 1, Current % Divisor,
                             Append(Quotient, Current \div Divisor))

SizeTDivide(Limbs, Divisor) == SizeTDivideLoop(Limbs, Divisor, 1, 0, <<>>)

\* the conversion of a size_t to the int that is returned: the value modulo
\* 2^32, read as a two's complement number
SizeTToInt(Limbs) ==
    LET High == Limbs[3]
        Low == Limbs[4]
    IN  IF High >= LimbBase \div 2
        THEN (High - LimbBase) * LimbBase + Low
        ELSE High * LimbBase + Low

\* The loop of AverageType from the element at position i on
RECURSIVE AverageTypeLoop(_, _, _, _)
AverageTypeLoop(NumericalContainer, i, Sum, Iterator) ==
    IF i > Len(NumericalContainer) THEN [Sum |-> Sum, Iterator |-> Iterator]
    ELSE AverageTypeLoop(NumericalContainer, i + 1,
                         Sum + NumericalContainer[i], Iterator + 1)

\* SLN::AverageType: in Sum / Iterator the int Sum is converted to size_t,
\* the division is unsigned, and the quotient is converted to int
AverageType(NumericalContainer) ==
    LET r == AverageTypeLoop(NumericalContainer, 1, 0, 0)
    IN  IF r.Iterator = 0 THEN 0
        ELSE SizeTToInt(SizeTDivide(IntToSizeT(r.Sum), r.Iterator))

\* A float that holds the quotient of two integers is written as the
\* fraction in lowest terms that the division rounds; the integers of the
\* model and their sums are floats without rounding.
RECURSIVE GreatestCommonDivisor(_, _)
GreatestCommonDivisor(a, b) ==
    IF b = 0 THEN a ELSE GreatestCommonDivisor(b, a % b)

FloatOfInt(Value) == [Numerator |-> Value, Denominator |-> 1]

\* Sum / Iterator in float: Iterator > 0 is converted to float
FloatQuotient(Sum, Iterator) ==
    LET g == GreatestCommonDivisor(IF Sum < 0 THEN -Sum ELSE Sum, Iterator)
    IN  [Numerator |-> Sum \div g, Denominator |-> Iterator \div g]

\* The loop of Average from the element at position i on
RECURSIVE AverageLoop(_, _, _, _)
AverageLoop(NumericalContainer, i, Sum, Iterator) ==
    IF i > Len(NumericalContainer) THEN [Sum |-> Sum, Iterator |-> Iterator]
    ELSE AverageLoop(NumericalContainer, i + 1,
                     Sum + NumericalContainer[i], Iterator + 1)

\* a mutant: the counter starts at 1
Average_CountFromOne(NumericalContainer) ==
    LET r == AverageLoop(NumericalContainer, 1, 0, 1)
    IN  IF r.Iterator = 0 THEN FloatOfInt(0)
        ELSE FloatQuotient(r.Sum, r.Iterator)

\* SLN::Average
Average(NumericalContainer) ==
    LET r == AverageLoop(NumericalContainer, 1, 0, 0)
    IN  IF r.Iterator = 0 THEN FloatOfInt(0)
        ELSE FloatQuotient(r.Sum, r.Iterator)

\* the vector {2, 4, ..., 2k}
Evens(k) == [i \in 1..k |-> 2 * i]

CallAverage ==
    /\ op' = "Average"
    /\ arg' = [NumericalContainer |-> Vector1]
    /\ ret' = Average(Vector1)
    /\ UNCHANGED <<ObjectVector, Links, Vector1, Vector2>>

CallAverageType ==
    /\ op' = "AverageType"
    /\ arg' = [NumericalContainer |-> Vector1]
    /\ ret' = AverageType(Vector1)
    /\ UNCHANGED <<ObjectVector, Links, Vector1, Vector2>>

InitAverage ==
    /\ op = "init"
    /\ arg = NoArg
    /\ ret = NoRet
    /\ ObjectVector = <<>>
    /\ Links = <<>>
    /\ Vector1 \in SeqsUpTo(SignedValues, MaxLen)
                    \cup {Evens(k) : k \in 0..MaxLen}
    /\ Vector2 = <<>>

NextAverage ==
    \/ CallAverageType
    \/ CallAverage

SpecAverage == InitAverage /\ [][NextAverage]_vars

------------------------------------------------------------------------------
(* GetQuotient (SegLibNumerical.h) on int, a two's complement type of 32   *)
(* bits.                                                                   *)

\* the largest and the smallest int
IntMax == 2147483647

IntMin == -IntMax - 1

\* Value / Factor of C++ rounds towards zero, and Value % Factor is what is
\* left.  The quotient of IntMin by -1 is no int; / and % are undefined for
\* it, as they are for Factor = 0.
Overflows(Value, Factor) == Value = IntMin /\ Factor = -1

CppQuotient(Value, Factor) ==
    LET Floor == Value \div Factor
        Exact == Value % (IF Factor < 0 THEN -Factor ELSE Factor) = 0
    IN  IF ~Exact /\ ((Value < 0) /= (Factor < 0)) THEN Floor + 1 ELSE Floor

CppRemainder(Value, Factor) == Value - Factor * CppQuotient(Value, Factor)

\* SLN::IsDivisibleBy
IsDivisibleBy(Numerator, Denominator) == CppRemainder(Numerator, Denominator) = 0

\* a mutant: the quotient is returned whether or not Factor divides Value
GetQuotient_NoSentinel(Value, Factor) == CppQuotient(Value, Factor)

\* SLN::GetQuotient
GetQuotient(Value, Factor) ==
    IF ~IsDivisibleBy(Value, Factor) THEN 0
    ELSE CppQuotient(Value, Factor)

\* what a call of GetQuotient gives back: a value, or no return at all when
\* the division traps
Returned(Value) == [Returned |-> TRUE, Value |-> Value]

Trapped == [Returned |-> FALSE, Value |-> 0]

\* the outcomes of the undefined division: the trap of the divide
\* instruction, or some int
UndefinedQuotients == {Trapped} \cup {Returned(v) : v \in {IntMin, 0, IntMax}}

\* the arguments of the calls
QuotientArgs == (-MaxQuotientArg)..MaxQuotientArg \cup {IntMin, IntMin + 1, IntMax}

CallGetQuotient(n, d) ==
    /\ op' = "GetQuotient"
    /\ arg' = [Value |-> n, Factor |-> d]
    /\ IF Overflows(n, d)
       THEN ret' \in UndefinedQuotients
       ELSE ret' = Returned(GetQuotient(n, d))
    /\ UNCHANGED <<ObjectVector, Links, Vector1, Vector2>>

InitQuotient ==
    /\ op = "init"
    /\ arg = NoArg
    /\ ret = NoRet
    /\ ObjectVector = <<>>
    /\ Links = <<>>
    /\ Vector1 = <<>>
    /\ Vector2 = <<>>

NextQuotient ==
    \/ \E n \in QuotientArgs, d \in QuotientArgs \ {0, IntMin} : CallGetQuotient(n, d)

SpecQuotient == InitQuotient /\ [][NextQuotient]_vars

------------------------------------------------------------------------------
\* primality by its plain definition: x >= 2 has no divisor d with 1 < d < x
PlainPrime(x) == x >= 2 /\ \A d \in 2..(x - 1) : x % d /= 0

\* r is strictly increasing
StrictlyIncreasing(r) == \A i, j \in 1..Len(r) : i < j => r[i] < r[j]

\* C16: GeneratePrimes(n) is the increasing list of the n smallest primes,
\* for every n >= 0.
C16_Original ==
    op = "GeneratePrimes" =>
        /\ Len(ret) = arg.Limit
        /\ StrictlyIncreasing(ret)
        /\ \A i \in 1..Len(ret) : PlainPrime(ret[i])
        /\ \A i \in 1..Len(ret) :
              \A p \in 2..ret[i] : PlainPrime(p) => p \in Elements(ret)

\* C17: for all n >= 0, GeneratePrimes(n) returns exactly n values, strictly
\* increasing, each a prime by plain trial division, and no prime between the
\* first and the last returned value is missing from the result.
C17_GeneratePrimes ==
    op = "GeneratePrimes" =>
        /\ Len(ret) = arg.Limit
        /\ StrictlyIncreasing(ret)
        /\ \A i \in 1..Len(ret) : PlainPrime(ret[i])
        /\ ret /= <<>> =>
              \A p \in ret[1]..ret[Len(ret)] :
                  PlainPrime(p) => p \in Elements(ret)

\* a call that has scanned past 25 and 49, the squares that the two
\* divisors of the first round of the loop of IsPrime reject
C17_Witness ==
    /\ op = "GeneratePrimes"
    /\ arg.Limit >= 14
    /\ Len(ret) = arg.Limit
    /\ ret[7] = 23 /\ ret[8] = 29
    /\ ret[13] = 47 /\ ret[14] = 53

\* C18: for all n >= 0, GenerateComposites(n) returns the first n composite
\* numbers in increasing order (4, 6, 8, 9, 10, ...): exactly n values, each
\* greater than 1 and not prime, and no composite number below the last
\* returned value is missing.
C18_GenerateComposites ==
    op = "GenerateComposites" =>
        /\ Len(ret) = arg.Limit
        /\ StrictlyIncreasing(ret)
        /\ \A i \in 1..Len(ret) : ret[i] > 1 /\ ~PlainPrime(ret[i])
        /\ \A i \in 1..Len(ret) :
              \A c \in 2..ret[i] : ~PlainPrime(c) => c \in Elements(ret)
        /\ Len(ret) >= 5 => SubSeq(ret, 1, 5) = <<4, 6, 8, 9, 10>>

\* a call that returned the first composites, the odd composite 9 among them
C18_Witness ==
    /\ op = "GenerateComposites"
    /\ arg.Limit >= 5
    /\ ret[1] = 4
    /\ ret[4] = 9

\* C19: for every x of -MaxPrimeArg..MaxPrimeArg, IsPrime(x) is true iff
\* x >= 2 and x has no divisor d with 1 < d < x; in particular IsPrime
\* rejects the squares of primes 25, 49 and 121.
C19_IsPrime ==
    op = "IsPrime" =>
        /\ ret = PlainPrime(arg.Value)
        /\ arg.Value \in {25, 49, 121} => ret = FALSE
        /\ arg.Value <= 1 => ret = FALSE

\* IsPrime has rejected 121, the square of a divisor i + 2 of the second
\* round of the loop
C19_Witness ==
    /\ op = "IsPrime"
    /\ arg.Value = 121
    /\ ret = FALSE

\* the sum of the elements of s
RECURSIVE SumOf(_)
SumOf(s) == IF s = <<>> THEN 0 ELSE s[1] + SumOf(Tail(s))

\* the quotient of a by b > 0, rounded towards zero
TruncatingQuotient(a, b) == IF a >= 0 THEN a \div b ELSE -((-a) \div b)

\* C20: for every non-empty container of signed integers, a negative sum
\* included, AverageType returns the truncating integer quotient of the sum
\* of the elements by their count.
C20_Original ==
    (op = "AverageType" /\ arg.NumericalContainer /= <<>>) =>
        ret = TruncatingQuotient(SumOf(arg.NumericalContainer),
                                 Len(arg.NumericalContainer))

Divides(d, n) == n % (IF d < 0 THEN -d ELSE d) = 0

ExactQuotient(n, d) == n \div d

\* what the claim says of the returned value r of GetQuotient(n, d)
QuotientOrZero(n, d, r) ==
    /\ r = IF Divides(d, n) THEN ExactQuotient(n, d) ELSE 0
    /\ r /= 0 => r * d = n
    /\ n = 0 => r = 0
    /\ ~Divides(d, n) => r = 0

====
